---------------------------- MODULE Spec2Model ----------------------------
(***************************************************************************)
(* Model of the procedural geometry core of graph-engine-webgpu            *)
(* (src/GraphObjects.cpp).                                                 *)
(*                                                                         *)
(* Numbers.  The generators compute in float.  The model computes in exact *)
(* arithmetic on the values it draws:                                      *)
(*   - a scalar is an integer, or a rational [n, d] with d > 0;            *)
(*   - a vec3 is [nan, n, d]: the vector n / sqrt(d) with n an integer     *)
(*     triple, or NaN when nan is TRUE (glm::normalize of the zero vector  *)
(*     is 0 * inversesqrt(0) = NaN, and NaN propagates);                   *)
(*   - field values and heights are counted in units of 1e-7, so that the  *)
(*     code's threshold 1e-6f is Eps6 units and values on both sides of    *)
(*     it can be drawn.                                                    *)
(* Float rounding is not modelled.                                         *)
(***************************************************************************)
EXTENDS Integers, Sequences, FiniteSets, TLC

VARIABLES
    pc,         \* "idle" | "returned" | "threw", and inside generateStreamlines
                \* "lattice" | "integrate" | "emit"
    gen,        \* name of the generator of the current call
    in,         \* arguments of the current call
    verts,      \* the mesh the call builds and returns (verts / allVerts)
    color,      \* the vec3 a color utility returns
    evals,      \* evaluator calls made by the current call
    lat,        \* generateStreamlines: number of lattice points finished (ix,iy,iz loops)
    pos,        \* generateStreamlines: pos
    stepI,      \* generateStreamlines: loop counter `step` of the integration loop
    streamline, \* generateStreamlines: std::vector<vec3> streamline
    evalsPt,    \* generateStreamlines: field evaluations at the current lattice point
    parsers,    \* the ExpressionParser of each user-defined function: m_expr, m_vars
    lastCompile,\* the most recent ExpressionParser::compile call and what it returned
    thr,        \* each worker's generateParametricCurve call: its position and locals
    kept,       \* a mesh the caller kept from an earlier call, with the call's arguments
    fpc,        \* main(): "start" | the part of onFrame just finished | "finished"
    app,        \* the Application object: the members the frame loop reads and writes
    gpu,        \* every buffer wgpuDeviceCreateBuffer returned, by handle: its destruction
    obs         \* what the latest calls did: buffers bound, functions evaluated, rebuilds

vars == <<pc, gen, in, verts, color, evals, lat, pos, stepI, streamline, evalsPt,
          parsers, lastCompile, thr, kept, fpc, app, gpu, obs>>
frameVars == <<fpc, app, gpu, obs>>
streamVars == <<lat, pos, stepI, streamline, evalsPt>>
appVars == <<parsers, lastCompile, thr, kept>>
coreVars == <<pc, gen, in, verts, color, evals, lat, pos, stepI, streamline, evalsPt>>

---------------------------------------------------------------------------
(* Bounds of the model *)

\* largest segment / sample count drawn for curves and surfaces
MaxSeg == 3
\* largest tubeSegments drawn
MaxTube == 4
\* largest lattice resolution component drawn
MaxRes == 2
\* largest segment count of the curve calls made by the workers
MaxWorkSeg == 2
\* most functions the function list holds at once
MaxFunctions == 2
\* most changed widgets in one run of the application
MaxEdits == 3
\* magnitudeToColor inputs are k / (4 * ColorRes), k in -ColorRes .. 5 * ColorRes
ColorRes == 5

(* Program constants *)

\* 1e-6f, in units of 1e-7
Eps6 == 10
\* int maxSteps = 200
maxSteps == 200
\* float minH = 1e9f
HugeH == 1000000000
\* generateArrowMesh(..., 6, color) at every glyph placement site
ArrowSegments == 6
\* float maxMag = 0.001f of generateVectorField, in units of 1e-7
MaxMagFloor == 10000
\* float minDist = 0.1f of the surface overlays, in units of 0.01
MinDist == 10
\* static constexpr int BUFFER_RELEASE_DELAY = 5
BUFFER_RELEASE_DELAY == 5

---------------------------------------------------------------------------
(* Integer helpers *)

Abs(x) == IF x < 0 THEN -x ELSE x
Max(a, b) == IF a > b THEN a ELSE b
Min(a, b) == IF a < b THEN a ELSE b

RECURSIVE Gcd(_, _)
Gcd(a, b) == IF b = 0 THEN Abs(a) ELSE Gcd(Abs(b), Abs(a) % Abs(b))

RECURSIVE Concat(_)
Concat(ss) == IF ss = <<>> THEN <<>> ELSE Head(ss) \o Concat(Tail(ss))

---------------------------------------------------------------------------
(* vec3 *)

Add3(a, b) == <<a[1] + b[1], a[2] + b[2], a[3] + b[3]>>
Sub3(a, b) == <<a[1] - b[1], a[2] - b[2], a[3] - b[3]>>
Scale3(k, a) == <<k * a[1], k * a[2], k * a[3]>>
Dot3(a, b) == a[1] * b[1] + a[2] * b[2] + a[3] * b[3]
Cross3(a, b) == <<a[2] * b[3] - a[3] * b[2],
                  a[3] * b[1] - a[1] * b[3],
                  a[1] * b[2] - a[2] * b[1]>>
Zero3 == <<0, 0, 0>>

\* n with the common factor of its components removed (same direction)
Reduce3(n) ==
    LET g == Gcd(Gcd(n[1], n[2]), n[3])
    IN  IF g = 0 THEN n ELSE <<n[1] \div g, n[2] \div g, n[3] \div g>>

NaNVec == [nan |-> TRUE, n |-> Zero3, d |-> 1]
Vec(n) == [nan |-> FALSE, n |-> n, d |-> 1]

\* glm::normalize(v) = v * inversesqrt(dot(v, v)): NaN for the zero vector
Normalize(v) ==
    IF v.nan \/ v.n = Zero3 THEN NaNVec
    ELSE LET r == Reduce3(v.n) IN [nan |-> FALSE, n |-> r, d |-> Dot3(r, r)]

\* glm::cross(a, b)
Cross(a, b) ==
    IF a.nan \/ b.nan THEN NaNVec
    ELSE [nan |-> FALSE, n |-> Cross3(a.n, b.n), d |-> a.d * b.d]

\* a - glm::dot(a, b) * b
\*   = (b.d * a.n - (a.n . b.n) * b.n) / (b.d * sqrt(a.d))
ProjectOff(a, b) ==
    IF a.nan \/ b.nan THEN NaNVec
    ELSE [nan |-> FALSE,
          n   |-> Sub3(Scale3(b.d, a.n), Scale3(Dot3(a.n, b.n), b.n)),
          d   |-> b.d * b.d * a.d]

\* glm::length(v) > 1e-8f: for an integer numerator and d < 1e16 this is n # 0;
\* every comparison with NaN is false
LenAbove8(v) == ~v.nan /\ v.n # Zero3

IsUnit(v) == ~v.nan /\ Dot3(v.n, v.n) = v.d
Perp(a, b) == ~a.nan /\ ~b.nan /\ Dot3(a.n, b.n) = 0

---------------------------------------------------------------------------
(* Color utilities (GraphObjects.cpp 13-35) *)

\* a color is [c |-> <<r, g, b>>, d |-> den]: the components c / d
Color(r, g, b, d) == [c |-> <<r, g, b>>, d |-> d]
ColorEq(x, y) == \A k \in 1..3 : x.c[k] * y.d = y.c[k] * x.d

\* magnitudeToColor(t) for t = n / d, d > 0
magnitudeToColor_swapped(n, d) ==
    LET cn == IF n < 0 THEN 0 ELSE IF n > d THEN d ELSE n
    IN  IF 4 * cn < d THEN Color(0, 4 * cn, d, d)
        ELSE IF 4 * cn < 2 * d THEN Color(0, d, 2 * d - 4 * cn, d)
        ELSE IF 4 * cn < 3 * d THEN Color(4 * cn - 2 * d, d, 0, d)
        ELSE Color(d, 4 * cn - 3 * d, 0, d)

magnitudeToColor(n, d) ==
    LET cn == IF n < 0 THEN 0 ELSE IF n > d THEN d ELSE n   \* glm::clamp(t, 0, 1)
    IN  IF 4 * cn < d THEN Color(0, 4 * cn, d, d)                            \* (0, s, 1)
        ELSE IF 4 * cn < 2 * d THEN Color(0, d, 2 * d - 4 * cn, d)           \* (0, 1, 1 - s)
        ELSE IF 4 * cn < 3 * d THEN Color(4 * cn - 2 * d, d, 0, d)           \* (s, 1, 0)
        ELSE Color(d, 4 * d - 4 * cn, 0, d)                                  \* (1, 1 - s, 0)

NeutralColor == Color(5, 7, 10, 10)    \* vec3(0.5f, 0.7f, 1.0f)

heightToColor_noGuard(height, minH, maxH) ==
    IF maxH - minH <= 0 THEN NeutralColor
    ELSE magnitudeToColor(height - minH, maxH - minH)

\* heightToColor(height, minH, maxH)
heightToColor(height, minH, maxH) ==
    IF maxH - minH < Eps6 THEN NeutralColor
    ELSE magnitudeToColor(height - minH, maxH - minH)

---------------------------------------------------------------------------
(* Arrow mesh (GraphObjects.cpp 39-124) *)

\* One vertex of the canonical arrow: the loop that emitted it (part), the loop
\* index i, its place k in the loop body, its height (z: "0", "shaft" =
\* shaftLength, "tip" = shaftLength + headLength) and its normal (nrm).
AV(part, i, k, z, nrm) == [part |-> part, i |-> i, k |-> k, z |-> z, nrm |-> nrm]

ShaftQuad(i) ==
    << AV("shaft", i, 1, "0", "radial"),     AV("shaft", i, 2, "0", "radial"),
       AV("shaft", i, 3, "shaft", "radial"), AV("shaft", i, 4, "shaft", "radial"),
       AV("shaft", i, 5, "0", "radial"),     AV("shaft", i, 6, "shaft", "radial") >>

ConeTri(i) ==
    << AV("cone", i, 1, "shaft", "slant"), AV("cone", i, 2, "shaft", "slant"),
       AV("cone", i, 3, "tip", "slant") >>

ShaftCapTri(i) ==
    << AV("shaftCap", i, 1, "0", "down"), AV("shaftCap", i, 2, "0", "down"),
       AV("shaftCap", i, 3, "0", "down") >>

ConeCapTri(i) ==
    << AV("coneCap", i, 1, "shaft", "down"), AV("coneCap", i, 2, "shaft", "down"),
       AV("coneCap", i, 3, "shaft", "down") >>

\* for (int i = 0; i < segments; ++i) body(i)
ForSeq(n, Body(_)) == Concat([k \in 1..n |-> Body(k - 1)])

\* an arrow mesh without the disc that closes the head
generateArrowMesh_noConeCap(segments) ==
    ForSeq(segments, ShaftQuad) \o ForSeq(segments, ConeTri)
      \o ForSeq(segments, ShaftCapTri)

\* generateArrowMesh(shaftLength, shaftRadius, headLength, headRadius, segments, color)
generateArrowMesh(segments) ==
    ForSeq(segments, ShaftQuad) \o ForSeq(segments, ConeTri)
      \o ForSeq(segments, ShaftCapTri) \o ForSeq(segments, ConeCapTri)

\* the z of a vertex position: 0, shaftLength, or the tip's shaftLength + headLength
ArrowHeight(z, shaftLength, headLength) ==
    CASE z = "0" -> 0
      [] z = "shaft" -> shaftLength
      [] z = "tip" -> shaftLength + headLength

\* the normal of a vertex: (c, s, 0) on the shaft, (nr c, nr s, nz) on the cone
\* (its cosines and sines are kept as names), capNormal = coneCapN = (0, 0, -1)
ArrowNormal(nrm) ==
    CASE nrm = "radial" -> <<"c", "s", 0>>
      [] nrm = "slant" -> <<"nr*c", "nr*s", "nz">>
      [] nrm = "down" -> <<0, 0, -1>>

\* calls of generateArrowMesh by itself: lengths that are zero, equal or
\* unequal, segments up to the 6 the placement sites pass
ArrowInputs ==
    [shaftLength : {0, 1, 3}, headLength : {0, 1, 3}, segments : 0..ArrowSegments]

---------------------------------------------------------------------------
(* Curves: the evaluator curveFunc is a quadratic a0 + a1 t + a2 t^2 *)

Curve(a1, a2) == [a1 |-> a1, a2 |-> a2]
Curves ==
    { Curve(<<0, 0, 0>>, <<0, 0, 0>>),      \* constant curve
      Curve(<<1, 0, 0>>, <<0, 0, 0>>),      \* line along x
      Curve(<<0, 1, 0>>, <<0, 0, 0>>),      \* line along y, the reference axis
      Curve(<<1, 0, 0>>, <<0, 1, 0>>),      \* parabola
      Curve(<<0, 0, 0>>, <<1, 0, 0>>),      \* (t^2, 0, 0): turns back at t = 0
      Curve(<<2, 0, -1>>, <<-1, 0, 1>>),    \* tangent turns onto the seed normal
      Curve(<<1, 0, 0>>, <<0, 0, 1>>) }     \* parabola in the plane of the seed normal

\* curveFunc(t) for an integer t
CurveAt(c, t) == Add3(Scale3(t, c.a1), Scale3(t * t, c.a2))

\* (curveFunc(t + eps) - curveFunc(t - eps)) / (2 eps) at t = tn / td:
\* a1 + 2 a2 t exactly when eps # 0, and 0 / 0 = NaN when eps = 0
CentralDiff(c, tn, td, epsZero) ==
    IF epsZero THEN NaNVec
    ELSE [nan |-> FALSE,
          n   |-> Add3(Scale3(td, c.a1), Scale3(2 * tn, c.a2)),
          d   |-> td * td]

\* (curveFunc(t + eps) - 2 pos + curveFunc(t - eps)) / (eps * eps): 2 a2, or NaN
SecondDiff(c, epsZero) == IF epsZero THEN NaNVec ELSE Vec(Scale3(2, c.a2))

\* glm::length(v) < 1e-6f for a vector in plain units whose numerator is an
\* integer triple: only the zero vector; false for NaN
LenBelow6(v) == ~v.nan /\ v.n = Zero3

\* |v.y| < lim / 100 for the unit vector v; false for NaN
AbsYBelow(v, lim) == ~v.nan /\ v.n[2] * v.n[2] * 10000 < lim * lim * v.d

YAxis == Vec(<<0, 1, 0>>)
XAxis == Vec(<<1, 0, 0>>)

GlyphRef_alwaysY(dir) == YAxis

\* vec3 ref = (std::abs(dir.y) < 0.99f) ? vec3(0, 1, 0) : vec3(1, 0, 0)
GlyphRef(dir) == IF AbsYBelow(dir, 99) THEN YAxis ELSE XAxis

\* vec3 xAxis = glm::normalize(glm::cross(ref, dir))
GlyphXAxis(dir) == Normalize(Cross(GlyphRef(dir), dir))

\* vec3 yAxis = glm::cross(dir, xAxis)
GlyphYAxis(dir) == Cross(dir, GlyphXAxis(dir))

\* The placement loop `for (auto& v : mesh)`: the position of every arrow vertex
\* becomes xAxis * x + yAxis * y + dir * z + at for its local (x, y, z), its
\* normal is rotated alike; tag is what the caller computed for the glyph besides
\* its direction (its size and color), or the name of the overlay.
PlaceArrow(at, dir, tag, mesh) ==
    [k \in 1..Len(mesh) |->
        [at |-> at, dir |-> dir, xAxis |-> GlyphXAxis(dir), yAxis |-> GlyphYAxis(dir),
         tag |-> tag, local |-> mesh[k]]]

---------------------------------------------------------------------------
(* generateParametricCurve (GraphObjects.cpp 197-217) *)

\* a call's result: the mesh and the number of evaluator calls; threw marks a
\* C++ exception leaving the generator
Result(mesh, n) == [verts |-> mesh, evals |-> n, threw |-> FALSE]
Thrown(n) == [verts |-> <<>>, evals |-> n, threw |-> TRUE]

LineVertex(p) == [pos |-> p]

generateParametricCurve_atLeastOne(c, tMin, tMax, segments) ==
    LET n  == Max(segments, 1)
        dt == (tMax - tMin) \div n
        Seg(i) == << LineVertex(CurveAt(c, tMin + i * dt)),
                     LineVertex(CurveAt(c, tMin + (i + 1) * dt)) >>
    IN  Result(ForSeq(n, Seg), 2 * n)

generateParametricCurve(c, tMin, tMax, segments) ==
    LET dt == (tMax - tMin) \div segments
        Seg(i) == << LineVertex(CurveAt(c, tMin + i * dt)),
                     LineVertex(CurveAt(c, tMin + (i + 1) * dt)) >>
    IN  Result(ForSeq(segments, Seg), 2 * Max(segments, 0))

---------------------------------------------------------------------------
(* generateParametricCurveTube (GraphObjects.cpp 221-318) *)

\* points[i] = curveFunc(tMin + i * dt), i = 0 .. segments (as a 1-based sequence)
TubePoints(c, tMin, tMax, segments) ==
    LET dt == (tMax - tMin) \div segments
    IN  [k \in 1..(segments + 1) |-> CurveAt(c, tMin + (k - 1) * dt)]

\* tangents[i] = glm::normalize((fwd + bwd) * 0.5f)
TubeTangents(points, segments) ==
    [k \in 1..(segments + 1) |->
        LET i   == k - 1
            fwd == IF i < segments THEN Sub3(points[k + 1], points[k])
                   ELSE Sub3(points[k], points[k - 1])
            bwd == IF i > 0 THEN Sub3(points[k], points[k - 1]) ELSE fwd
        IN  Normalize(Vec(Add3(fwd, bwd)))]

\* normals[0]: cross of the first tangent with a reference axis
SeedNormal(t0) ==
    LET ref == IF AbsYBelow(t0, 90) THEN YAxis ELSE XAxis
    IN  Normalize(Cross(t0, ref))

\* one step of the frame propagation: normals[i] from normals[i-1], binormals[i-1]
NextNormal(prevN, prevB, ti) ==
    LET projected == ProjectOff(prevN, ti)
    IN  IF LenAbove8(projected) THEN Normalize(projected) ELSE prevB

\* frames[k] = [t, n, b] of curve sample k - 1
RECURSIVE TubeFrames(_, _)
TubeFrames(tangents, k) ==
    IF k = 1
    THEN LET n0 == SeedNormal(tangents[1])
         IN  << [t |-> tangents[1], n |-> n0, b |-> Cross(tangents[1], n0)] >>
    ELSE LET prev == TubeFrames(tangents, k - 1)
             ni   == NextNormal(prev[k - 1].n, prev[k - 1].b, tangents[k])
         IN  Append(prev, [t |-> tangents[k], n |-> ni, b |-> Cross(tangents[k], ni)])

\* ringPoint / ringNormal of ring ringIdx at curve sample curveIdx: NaN exactly
\* when the sample's normal or binormal is
RingVertex(frames, curveIdx, ringIdx) ==
    [ci |-> curveIdx, ri |-> ringIdx,
     nan |-> frames[curveIdx + 1].n.nan \/ frames[curveIdx + 1].b.nan]

TubeQuad_oneTriangle(frames, i, j, tubeSegments) ==
    LET j1 == (j + 1) % tubeSegments
    IN  << RingVertex(frames, i, j), RingVertex(frames, i, j1), RingVertex(frames, i + 1, j) >>

\* the six vertices pushed for ring quad (i, j)
TubeQuad(frames, i, j, tubeSegments) ==
    LET j1 == (j + 1) % tubeSegments
    IN  << RingVertex(frames, i, j), RingVertex(frames, i, j1), RingVertex(frames, i + 1, j),
           RingVertex(frames, i + 1, j), RingVertex(frames, i, j1), RingVertex(frames, i + 1, j1) >>

generateParametricCurveTube(c, tMin, tMax, segments, tubeSegments) ==
    IF segments < 1 THEN Result(<<>>, 0)
    ELSE LET points == TubePoints(c, tMin, tMax, segments)
             frames == TubeFrames(TubeTangents(points, segments), segments + 1)
             Ring(i) == LET Q(j) == TubeQuad(frames, i, j, tubeSegments)
                        IN  ForSeq(tubeSegments, Q)
         IN  Result(ForSeq(segments, Ring), segments + 1)

\* the frames the call builds (normals, binormals with the tangents)
FramesOf(c, tMin, tMax, segments) ==
    TubeFrames(TubeTangents(TubePoints(c, tMin, tMax, segments), segments), segments + 1)

---------------------------------------------------------------------------
(* Overlay generators on curves (GraphObjects.cpp 442-480, 819-876) *)

\* the sample parameter t = tMin + (tMax - tMin) * i / max(count - 1, 1), as the
\* fraction SampleNum / SampleDen
SampleDen(count) == Max(count - 1, 1)
SampleNum(tMin, tMax, count, i) == tMin * SampleDen(count) + (tMax - tMin) * i

generateTangentVectors(c, tMin, tMax, count) ==
    IF count < 1 THEN Result(<<>>, 0)
    ELSE LET epsZero == (tMax = tMin)        \* eps = (tMax - tMin) * 1e-4f
             Glyph(i) ==
                 LET tangent == CentralDiff(c, SampleNum(tMin, tMax, count, i),
                                            SampleDen(count), epsZero)
                 IN  IF LenBelow6(tangent) THEN <<>>     \* if (mag < 1e-6f) continue
                     ELSE PlaceArrow(i, Normalize(tangent), "T",
                                     generateArrowMesh(ArrowSegments))
         IN  Result(ForSeq(count, Glyph), 3 * count)

Negate(v) == IF v.nan THEN v ELSE [v EXCEPT !.n = Scale3(-1, v.n)]

generateCurveNormals(c, tMin, tMax, count, flipNormal) ==
    IF count < 1 THEN Result(<<>>, 0)
    ELSE LET epsZero == (tMax = tMin)
             Glyph(i) ==
                 LET d1      == CentralDiff(c, SampleNum(tMin, tMax, count, i),
                                            SampleDen(count), epsZero)
                     tangent == Normalize(d1)
                     accel   == SecondDiff(c, epsZero)
                     normal  == ProjectOff(accel, tangent)
                     unitN   == IF LenBelow6(normal)
                                THEN LET ref == IF AbsYBelow(tangent, 99) THEN YAxis ELSE XAxis
                                     IN  Normalize(Cross(tangent, ref))
                                ELSE Normalize(normal)
                     dir     == IF flipNormal THEN Negate(unitN) ELSE unitN
                 IN  IF LenBelow6(d1) THEN <<>>
                     ELSE PlaceArrow(i, dir, "N", generateArrowMesh(ArrowSegments))
             \* three evaluations up to the tangent test, two more for accel
             Cost(i) == IF LenBelow6(CentralDiff(c, SampleNum(tMin, tMax, count, i),
                                                 SampleDen(count), epsZero))
                        THEN 3 ELSE 5
             RECURSIVE Sum(_)
             Sum(k) == IF k = 0 THEN 0 ELSE Cost(k - 1) + Sum(k - 1)
         IN  Result(ForSeq(count, Glyph), Sum(count))

\* generateFrenetFrame (GraphObjects.cpp 545-605)

FrenetFallback_alwaysY(T) == Normalize(Cross(T, YAxis))

\* the else branch of `if (nMag > 1e-6f)`: an arbitrary perpendicular of T
FrenetFallback(T) ==
    LET ref == IF AbsYBelow(T, 90) THEN YAxis ELSE XAxis
    IN  Normalize(Cross(T, ref))

\* colors[k] and dirs[k] of the three arrows
FrenetColors == << <<1, 0, 0>>, <<0, 1, 0>>, <<0, 0, 1>> >>

\* t = tMin + tNorm * (tMax - tMin) for tNorm 0 or 1
generateFrenetFrame(c, tMin, tMax, tNorm) ==
    LET t       == tMin + tNorm * (tMax - tMin)
        epsZero == (tMax = tMin)
        r1      == CentralDiff(c, t, 1, epsZero)
        r2      == SecondDiff(c, epsZero)
        T       == Normalize(r1)
        nComp   == ProjectOff(r2, T)
        \* nMag > 1e-6f: a non-zero integer numerator; false for NaN
        N       == IF ~nComp.nan /\ nComp.n # Zero3 THEN Normalize(nComp)
                   ELSE FrenetFallback(T)
        B       == Cross(T, N)
        dirs    == << T, N, B >>
        Arrow(k) == PlaceArrow(CurveAt(c, t), dirs[k + 1],
                               [k |-> k, color |-> FrenetColors[k + 1]],
                               generateArrowMesh(ArrowSegments))
    IN  IF LenBelow6(r1) THEN Result(<<>>, 5)
        ELSE Result(ForSeq(3, Arrow), 6)

---------------------------------------------------------------------------
(* Parametric surfaces (GraphObjects.cpp 322-438) *)

\* surfaceFunc(u, v) = (u, v, c0 + cu u + cv v + cuv u v), or the constant
\* vector (1, 2, c0) when fixed (three expressions that read no parameter)
Surface(fixed, c0, cu, cv, cuv) == [fixed |-> fixed, c0 |-> c0, cu |-> cu, cv |-> cv, cuv |-> cuv]
Surfaces ==
    { Surface(FALSE, 0, 0, 0, 0),      \* the plane (u, v, 0)
      Surface(FALSE, 7, 0, 0, 0),      \* constant height
      Surface(FALSE, 0, 3, 0, 0),      \* height range below 1e-6 on short grids
      Surface(FALSE, 0, 20, 10, 0),    \* slope
      Surface(FALSE, 0, 0, 0, 15),     \* saddle
      Surface(TRUE, 3, 0, 0, 0) }      \* constant surface

\* a parameter value: finite (an integer) or not (fin = FALSE: inf or NaN)
Fin(x) == [fin |-> TRUE, x |-> x]
NonFin == [fin |-> FALSE, x |-> 0]

\* uMin + i * du with du = (uMax - uMin) / uSegments:  x / 0 is inf or NaN, and
\* so is every uMin + i * du computed from it
GridParam(lo, hi, segs, i) ==
    IF segs = 0 THEN NonFin ELSE Fin(lo + i * ((hi - lo) \div segs))

\* surfaceFunc(u, v): [fin, p]; not finite when it reads a parameter that is not
SurfaceAt(f, u, v) ==
    IF f.fixed THEN [fin |-> TRUE, p |-> <<1, 2, f.c0>>]
    ELSE IF ~u.fin \/ ~v.fin THEN [fin |-> FALSE, p |-> Zero3]
    ELSE [fin |-> TRUE, p |-> <<u.x, v.x, f.c0 + f.cu * u.x + f.cv * v.x + f.cuv * u.x * v.x>>]

\* positions[i][j], i = 0 .. uSegments, j = 0 .. vSegments
GridPosition(a, i, j) ==
    SurfaceAt(a.f, GridParam(a.uMin, a.uMax, a.uSegments, i),
                   GridParam(a.vMin, a.vMax, a.vSegments, j))

GridHeights(a) ==
    { GridPosition(a, i, j).p[3] : i \in 0..a.uSegments, j \in 0..a.vSegments }

SetMin(S) == CHOOSE x \in S : \A y \in S : x <= y
SetMax(S) == CHOOSE x \in S : \A y \in S : x >= y

\* minH, maxH after the evaluation loop (std::min / std::max from 1e9f, -1e9f)
MinH(a) == SetMin(GridHeights(a) \cup {HugeH})
MaxH(a) == SetMax(GridHeights(a) \cup {-HugeH})

\* glm::cross of two vectors whose x, y are in plain units and whose z is in
\* units of 1e-7, as a direction in plain units (a positive multiple of the cross
\* product): (c1 * 1e-7, c2 * 1e-7, c3) ~ (c1, c2, c3 * 1e7)
CrossH(a, b) ==
    LET c == Cross3(a, b) IN << c[1], c[2], c[3] * (Eps6 * 1000000) >>

\* dpdu, dpdv at (u, v): the central differences over 2 * eps, exact for a height
\* that is linear in u and in v; NaN when a parameter read is not finite
SurfacePartials(f, u, v) ==
    IF f.fixed THEN [nan |-> FALSE, du |-> Zero3, dv |-> Zero3]
    ELSE IF ~u.fin \/ ~v.fin THEN [nan |-> TRUE, du |-> Zero3, dv |-> Zero3]
    ELSE [nan |-> FALSE, du |-> <<1, 0, f.cu + f.cuv * v.x>>, dv |-> <<0, 1, f.cv + f.cuv * u.x>>]

SurfaceNormal_flipped(a, i, j) ==
    LET d == SurfacePartials(a.f, GridParam(a.uMin, a.uMax, a.uSegments, i),
                                  GridParam(a.vMin, a.vMax, a.vSegments, j))
        n == CrossH(d.dv, d.du)
    IN  IF ~d.nan /\ n # Zero3 THEN Reduce3(n) ELSE <<0, 0, 1>>

\* normals[i][j]: the unit vector, written as the integer triple of its direction
\* with no common factor; n = cross(dpdu, dpdv), n /= len if len > 1e-8f (a
\* non-zero integer direction is longer, a NaN length fails the test), else (0,0,1)
SurfaceNormal(a, i, j) ==
    LET d == SurfacePartials(a.f, GridParam(a.uMin, a.uMax, a.uSegments, i),
                                  GridParam(a.vMin, a.vMax, a.vSegments, j))
        n == CrossH(d.du, d.dv)
    IN  IF ~d.nan /\ n # Zero3 THEN Reduce3(n) ELSE <<0, 0, 1>>

SurfaceVertex(a, i, j) ==
    LET p == GridPosition(a, i, j)
    IN  [i |-> i, j |-> j, pos |-> p, nrm |-> SurfaceNormal(a, i, j),
         color |-> IF a.colorByHeight THEN heightToColor(p.p[3], MinH(a), MaxH(a))
                   ELSE NeutralColor]

SurfaceCell_oneTriangle(a, i, j) ==
    << SurfaceVertex(a, i, j), SurfaceVertex(a, i + 1, j), SurfaceVertex(a, i + 1, j + 1) >>

\* the six vertices of cell (i, j)
SurfaceCell(a, i, j) ==
    << SurfaceVertex(a, i, j), SurfaceVertex(a, i + 1, j), SurfaceVertex(a, i + 1, j + 1),
       SurfaceVertex(a, i, j), SurfaceVertex(a, i + 1, j + 1), SurfaceVertex(a, i, j + 1) >>

\* std::vector<T>(n) for n = count converted to size_t: a negative count is a
\* size above max_size(), and the constructor throws std::length_error
VectorCtorThrows(count) == count < 0

generateParametricSurface(a) ==
    IF VectorCtorThrows(a.vSegments + 1) \/ VectorCtorThrows(a.uSegments + 1)
    THEN Thrown(0)
    ELSE LET grid == Max(a.uSegments + 1, 0) * Max(a.vSegments + 1, 0)
             Row(i) == LET Cell(j) == SurfaceCell(a, i, j) IN ForSeq(a.vSegments, Cell)
         IN  Result(ForSeq(a.uSegments, Row), 5 * grid)

WireVertex(a, u, v) == [pos |-> SurfaceAt(a.f, u, v)]

generateParametricSurfaceWireframe_uFamilyFirst(a) ==
    LET U(i) == GridParam(a.uMin, a.uMax, a.uSegments, i)
        V(j) == GridParam(a.vMin, a.vMax, a.vSegments, j)
        ULine(j) == LET S(i) == << WireVertex(a, U(i), V(j)), WireVertex(a, U(i + 1), V(j)) >>
                    IN  ForSeq(a.uSegments, S)
        VLine(i) == LET S(j) == << WireVertex(a, U(i), V(j)), WireVertex(a, U(i), V(j + 1)) >>
                    IN  ForSeq(a.vSegments, S)
        mesh == ForSeq(a.uSegments + 1, VLine) \o ForSeq(a.vSegments + 1, ULine)
    IN  Result(mesh, Len(mesh))

generateParametricSurfaceWireframe(a) ==
    LET U(i) == GridParam(a.uMin, a.uMax, a.uSegments, i)
        V(j) == GridParam(a.vMin, a.vMax, a.vSegments, j)
        \* U-direction lines (constant v)
        ULine(j) == LET S(i) == << WireVertex(a, U(i), V(j)), WireVertex(a, U(i + 1), V(j)) >>
                    IN  ForSeq(a.uSegments, S)
        \* V-direction lines (constant u)
        VLine(i) == LET S(j) == << WireVertex(a, U(i), V(j)), WireVertex(a, U(i), V(j + 1)) >>
                    IN  ForSeq(a.vSegments, S)
        mesh == ForSeq(a.vSegments + 1, ULine) \o ForSeq(a.uSegments + 1, VLine)
    IN  Result(mesh, Len(mesh))

---------------------------------------------------------------------------
(* Lattice generators (GraphObjects.cpp 128-193, 669-728, 767-816) *)

\* a vec3 with a NaN component; arithmetic on it gives NaN again and every
\* comparison with a NaN is false
NaN3 == <<>>
IsNaN3(v) == v = NaN3

\* fieldFunc(p): a constant field c, or the linear fields m * p (source, sink)
\* and m * (-p.y, p.x, 0) (rotation); values in units of 1e-7
Field(kind, c, m) == [kind |-> kind, c |-> c, m |-> m]

\* an expression that is not defined on the whole box, as the evaluator returns
\* it: c * (sqrt(p.x) / sqrt(p.x)) is c where p.x > 0 and NaN elsewhere
RootField == Field("root", <<12, 0, 0>>, 0)

\* a field that vanishes on part of the box: c where p.x > 0, zero elsewhere
StepField == Field("step", <<-24, 0, 0>>, 0)
Fields ==
    { Field("const", <<0, 0, 0>>, 0),      \* zero everywhere
      Field("const", <<6, 0, 0>>, 0),      \* magnitude 6e-7, below the threshold
      Field("const", <<0, 10, 0>>, 0),     \* magnitude 1e-6 exactly
      Field("const", <<12, 0, 0>>, 0),
      Field("radial", <<0, 0, 0>>, -6),    \* sink, zero at the origin
      Field("rot", <<0, 0, 0>>, 6) }       \* rotation about z

FieldAt(f, p) ==
    CASE f.kind = "const"  -> f.c
      [] IsNaN3(p)         -> NaN3
      [] f.kind = "root"   -> IF p[1] > 0 THEN f.c ELSE NaN3
      [] f.kind = "step"   -> IF p[1] > 0 THEN f.c ELSE Zero3
      [] f.kind = "radial" -> Scale3(f.m, p)
      [] f.kind = "rot"    -> <<-f.m * p[2], f.m * p[1], 0>>
      [] f.kind = "grad"   -> Add3(f.c, Scale3(f.m, p))      \* c + m p

\* scalarFunc(p) = c0 + a . p + b |p|^2
Scalar(c0, a, b) == [c0 |-> c0, a |-> a, b |-> b]
Scalars ==
    { Scalar(5, <<0, 0, 0>>, 0),           \* constant
      Scalar(0, <<1, 0, 0>>, 0),           \* values closer than 1e-6
      Scalar(0, <<12, 0, 0>>, 0),
      Scalar(0, <<0, 0, 0>>, 3),
      Scalar(-4, <<0, 10, 0>>, 1),
      Scalar(0, <<20000, 0, 0>>, 0) }      \* gradient above 0.001

ScalarAt(g, p) == g.c0 + Dot3(g.a, p) + g.b * Dot3(p, p)

\* the three central differences of scalarFunc at p: a + 2 b p exactly
GradientAt(g, p) == Add3(g.a, Scale3(2 * g.b, p))

\* number of lattice points the three nested loops visit
LatticeCount(res) ==
    IF res[1] < 1 \/ res[2] < 1 \/ res[3] < 1 THEN 0 ELSE res[1] * res[2] * res[3]

\* (ix, iy, iz) of the k-th lattice point visited, k = 1 .. LatticeCount(res)
LatticeIndex(res, k) ==
    << (k - 1) \div (res[2] * res[3]), ((k - 1) \div res[3]) % res[2], (k - 1) % res[3] >>

\* pos = rangeMin + vec3(ix, iy, iz) * step,
\* step = (rangeMax - rangeMin) / max(resolution - 1, 1) per component
LatticePos(a, k) ==
    LET idx == LatticeIndex(a.resolution, k)
    IN  [c \in 1..3 |->
            a.rangeMin[c]
              + idx[c] * ((a.rangeMax[c] - a.rangeMin[c]) \div Max(a.resolution[c] - 1, 1))]

\* glm::length(v) < 1e-6f for an integer triple in units of 1e-7
MagBelow6_exactZero(v) == ~IsNaN3(v) /\ Dot3(v, v) = 0

MagBelow6(v) == ~IsNaN3(v) /\ Dot3(v, v) < Eps6 * Eps6

\* What the emission loop computes for one glyph from its magnitude:
\*   nm2         normalizedMag squared, (mag / maxMag)^2, as a fraction in lowest
\*               terms; the color is magnitudeToColor(normalizedMag)
\*   len         <<b, s>>: len = arrowScale * (b + s * normalizedMag) / 100
\*   shaftLength, shaftRadius, headLength, headRadius: in thousandths of len
Fraction(n, d) == LET g == Gcd(n, d) IN << n \div g, d \div g >>

\* generateVectorField: len = minLen + (maxLen - minLen) * normalizedMag with
\* minLen = 0.05 arrowScale, maxLen = 0.8 arrowScale
VectorGlyph(magSq, maxMagSq) ==
    [nm2 |-> Fraction(magSq, maxMagSq), len |-> <<5, 75>>,
     shaftLength |-> 700, shaftRadius |-> 40, headLength |-> 300, headRadius |-> 100]

\* generateGradientField3D: len = arrowScale * (0.2 + 0.8 * normalizedMag)
GradientGlyph(magSq, maxMagSq) ==
    [nm2 |-> Fraction(magSq, maxMagSq), len |-> <<20, 80>>,
     shaftLength |-> 700, shaftRadius |-> 20, headLength |-> 300, headRadius |-> 60]

MaxMagSq_noFloor(floor, values) == SetMax({ Dot3(v, v) : v \in values } \cup { 1 })

\* maxMag squared after the first pass: std::max from the floor over all samples
MaxMagSq(floor, values) == SetMax({ Dot3(v, v) : v \in values } \cup { floor * floor })

EmitArrow_always(at, dir, tag) ==
    PlaceArrow(at, Normalize(Vec(dir)), tag, generateArrowMesh(ArrowSegments))

\* the body of the emission loop `for (auto& arrow : arrows)`
EmitArrow(at, dir, tag) ==
    IF MagBelow6(dir) THEN <<>>                              \* continue
    ELSE PlaceArrow(at, Normalize(Vec(dir)), tag, generateArrowMesh(ArrowSegments))

generateVectorField_clamped(a) ==
    LET b == [a EXCEPT !.resolution = [c \in 1..3 |-> Max(a.resolution[c], 1)]]
        n == LatticeCount(b.resolution)
        maxMagSq == MaxMagSq(MaxMagFloor, { FieldAt(b.f, LatticePos(b, k)) : k \in 1..n })
        Arrow(i) == LET dir == FieldAt(b.f, LatticePos(b, i + 1))
                    IN  EmitArrow(LatticePos(b, i + 1), dir, VectorGlyph(Dot3(dir, dir), maxMagSq))
    IN  Result(ForSeq(n, Arrow), n)

generateVectorField(a) ==
    LET n == LatticeCount(a.resolution)
        maxMagSq == MaxMagSq(MaxMagFloor, { FieldAt(a.f, LatticePos(a, k)) : k \in 1..n })
        Arrow(i) == LET dir == FieldAt(a.f, LatticePos(a, i + 1))
                    IN  EmitArrow(LatticePos(a, i + 1), dir, VectorGlyph(Dot3(dir, dir), maxMagSq))
    IN  Result(ForSeq(n, Arrow), n)

generateGradientField3D(a) ==
    LET n == LatticeCount(a.resolution)
        maxMagSq == MaxMagSq(Eps6, { GradientAt(a.g, LatticePos(a, k)) : k \in 1..n })
        Arrow(i) == LET grad == GradientAt(a.g, LatticePos(a, i + 1))
                    IN  EmitArrow(LatticePos(a, i + 1), grad, GradientGlyph(Dot3(grad, grad), maxMagSq))
    IN  Result(ForSeq(n, Arrow), 6 * n)

\* generateColoredCube: 6 faces, 2 triangles each; positions in units of halfSize
CubeNormals ==
    << <<0, 0, 1>>, <<0, 0, -1>>, <<1, 0, 0>>, <<-1, 0, 0>>, <<0, 1, 0>>, <<0, -1, 0>> >>
CubeCorners ==
    << << <<-1, -1,  1>>, << 1, -1,  1>>, << 1,  1,  1>>, <<-1,  1,  1>> >>,
       << <<-1, -1, -1>>, <<-1,  1, -1>>, << 1,  1, -1>>, << 1, -1, -1>> >>,
       << << 1, -1, -1>>, << 1,  1, -1>>, << 1,  1,  1>>, << 1, -1,  1>> >>,
       << <<-1, -1, -1>>, <<-1, -1,  1>>, <<-1,  1,  1>>, <<-1,  1, -1>> >>,
       << <<-1,  1, -1>>, <<-1,  1,  1>>, << 1,  1,  1>>, << 1,  1, -1>> >>,
       << <<-1, -1, -1>>, << 1, -1, -1>>, << 1, -1,  1>>, <<-1, -1,  1>> >> >>

\* the six pushes of face f: corners 0, 1, 2 and 0, 2, 3
CubeFace(f) ==
    [k \in 1..6 |->
        [face |-> f, k |-> k, nrm |-> CubeNormals[f + 1],
         corner |-> CubeCorners[f + 1][<<1, 2, 3, 1, 3, 4>>[k]]]]
generateColoredCube == ForSeq(6, CubeFace)

\* range = 1.0f, in units of 1e-7
UnitRange == Eps6 * 1000000

generateScalarField_exactGuard(a) ==
    LET n      == LatticeCount(a.resolution)
        vals   == { ScalarAt(a.g, LatticePos(a, k)) : k \in 1..n }
        minVal == SetMin(vals \cup {HugeH})
        maxVal == SetMax(vals \cup {-HugeH})
        range  == IF maxVal - minVal <= 0 THEN UnitRange ELSE maxVal - minVal
        Cube(i) ==
            LET at == LatticePos(a, i + 1)
                c  == magnitudeToColor(ScalarAt(a.g, at) - minVal, range)
            IN  [k \in 1..Len(generateColoredCube) |->
                    [at |-> at, color |-> c, local |-> generateColoredCube[k]]]
    IN  Result(ForSeq(n, Cube), n)

generateScalarField(a) ==
    LET n      == LatticeCount(a.resolution)
        vals   == { ScalarAt(a.g, LatticePos(a, k)) : k \in 1..n }
        minVal == SetMin(vals \cup {HugeH})
        maxVal == SetMax(vals \cup {-HugeH})
        range  == IF maxVal - minVal < Eps6 THEN UnitRange ELSE maxVal - minVal
        Cube(i) ==
            LET at == LatticePos(a, i + 1)
                c  == magnitudeToColor(ScalarAt(a.g, at) - minVal, range)
            IN  [k \in 1..Len(generateColoredCube) |->
                    [at |-> at, color |-> c, local |-> generateColoredCube[k]]]
    IN  Result(ForSeq(n, Cube), n)

---------------------------------------------------------------------------
(* generateStreamlines (GraphObjects.cpp 953-1030), one step of its loops at a time *)

\* for (int step = 0; step < maxSteps; ++step)
StepGuard_offByOne(step) == step <= maxSteps

StepGuard(step) == step < maxSteps

\* k1 .. k4 and vel at p for step size h: the field values are multiples of 6 or
\* constant, so k * (h * 0.5f) and the division by 6 are exact
\* p + k * (n / d), NaN when p or k is
Advance(p, k, n, d) ==
    IF IsNaN3(p) \/ IsNaN3(k) THEN NaN3 ELSE [c \in 1..3 |-> p[c] + (k[c] * n) \div d]

RK4(f, p, h) ==
    LET k1 == FieldAt(f, p)
        k2 == FieldAt(f, Advance(p, k1, h, 2))
        k3 == FieldAt(f, Advance(p, k2, h, 2))
        k4 == FieldAt(f, Advance(p, k3, h, 1))
    IN  IF \E k \in {k1, k2, k3, k4} : IsNaN3(k)
        THEN NaN3
        ELSE LET sum == Add3(Add3(k1, Scale3(2, k2)), Add3(Scale3(2, k3), k4))
             IN  [c \in 1..3 |-> sum[c] \div 6]

\* the six comparisons of the bounds check: all false on a NaN
OutOfBounds(a, p) ==
    ~IsNaN3(p) /\ \E c \in 1..3 : p[c] < a.rangeMin[c] \/ p[c] > a.rangeMax[c]

\* color = magnitudeToColor(iz / max(resolution.z - 1, 1))
StreamColor(a, k) ==
    magnitudeToColor(LatticeIndex(a.resolution, k)[3], Max(a.resolution[3] - 1, 1))

\* the line pairs of one streamline
StreamSegments(line, c) ==
    LET Pair(j) == << [pos |-> line[j + 1], color |-> c], [pos |-> line[j + 2], color |-> c] >>
    IN  ForSeq(Len(line) - 1, Pair)

---------------------------------------------------------------------------
(* Overlay generators on surfaces (GraphObjects.cpp 484-541, 878-951) *)

\* surfaceFunc(u, v) = (s u, s u v, 0), positions in units of 0.01: at u = 0 every
\* v gives the same point (a pole), where dpdv vanishes
PoleSurfaceAt(s, u, v) == <<s * u, s * u * v, 0>>

\* the central differences over 2 * eps, exact for this surface
PoleDpdu(s, u, v) == <<s, s * v, 0>>
PoleDpdv(s, u, v) == <<0, s * u, 0>>

\* u = uMin + (uMax - uMin) * i / std::max(uCount - 1, 1)
OverlayParam(lo, hi, count, i) == lo + ((hi - lo) * i) \div Max(count - 1, 1)

\* glm::length(pos - placedPos) < minDist for an already placed position
TooClose(placed, p) ==
    \E q \in 1..Len(placed) :
        LET d == Sub3(p, placed[q]) IN Dot3(d, d) < MinDist * MinDist

RecordPlaced_always(placed, p, emitted) == Append(placed, p)

\* placedPositions.push_back(pos), reached only when a glyph was emitted for
\* the sample (536; `if (placedAny)` at 944)
RecordPlaced(placed, p, emitted) == IF emitted THEN Append(placed, p) ELSE placed

\* generateSurfaceNormals, one sample: nothing if the normal is shorter than
\* 1e-8 (only the zero vector is, for these integer differences)
NormalGlyph(a, i, j, p, u, v) ==
    LET c      == Cross3(PoleDpdu(a.s, u, v), PoleDpdv(a.s, u, v))
        normal == IF a.flipNormal THEN Scale3(-1, c) ELSE c
    IN  IF normal = Zero3 THEN <<>>
        ELSE PlaceArrow(p, Normalize(Vec(normal)), [i |-> i, j |-> j, k |-> "n"],
                        generateArrowMesh(ArrowSegments))

\* generateSurfaceTangents, one sample: tangents[k] for k = startK .. endK - 1,
\* each skipped if shorter than 1e-6
TangentGlyphs(a, i, j, p, u, v) ==
    LET startK == IF a.mode = 2 THEN 1 ELSE 0
        endK   == IF a.mode = 1 THEN 1 ELSE 2
        Glyph(k) ==
            LET tangent == IF k = 0 THEN PoleDpdu(a.s, u, v) ELSE PoleDpdv(a.s, u, v)
            IN  IF k < startK \/ k >= endK \/ tangent = Zero3 THEN <<>>
                ELSE PlaceArrow(p, Normalize(Vec(tangent)), [i |-> i, j |-> j, k |-> k],
                                generateArrowMesh(ArrowSegments))
    IN  Glyph(0) \o Glyph(1)

\* placedPositions, allVerts and the number of evaluator calls after the first k
\* iterations of the loops over i (outer) and j (inner)
RECURSIVE OverlayScan(_, _, _)
OverlayScan(kind, a, k) ==
    IF k = 0 THEN [placed |-> <<>>, verts |-> <<>>, evals |-> 0]
    ELSE LET prev == OverlayScan(kind, a, k - 1)
             i == (k - 1) \div a.vCount
             j == (k - 1) % a.vCount
             u == OverlayParam(a.uMin, a.uMax, a.uCount, i)
             v == OverlayParam(a.vMin, a.vMax, a.vCount, j)
             p == PoleSurfaceAt(a.s, u, v)
             glyphs == IF kind = "normals" THEN NormalGlyph(a, i, j, p, u, v)
                       ELSE TangentGlyphs(a, i, j, p, u, v)
         IN  IF TooClose(prev.placed, p)
             THEN [prev EXCEPT !.evals = prev.evals + 1]          \* continue
             ELSE [placed |-> RecordPlaced(prev.placed, p, glyphs # <<>>),
                   verts  |-> prev.verts \o glyphs,
                   evals  |-> prev.evals + 5]

\* number of samples the two nested loops visit
OverlayCount(a) == IF a.uCount < 1 \/ a.vCount < 1 THEN 0 ELSE a.uCount * a.vCount

generateSurfaceNormals(a) ==
    LET r == OverlayScan("normals", a, OverlayCount(a)) IN Result(r.verts, r.evals)

generateSurfaceTangents(a) ==
    LET r == OverlayScan("tangents", a, OverlayCount(a)) IN Result(r.verts, r.evals)

---------------------------------------------------------------------------
(* Inputs *)

SegCounts == (-2)..MaxSeg
Spans == {0, 1, 2}
ColorInputs == (-ColorRes)..(5 * ColorRes)
Heights == {0, 3, 9, 10, 25, 40}

CurveInputs ==
    { [c |-> c, tMin |-> t, tMax |-> t + sp * Max(n, 1), n |-> n,
       tubeSegments |-> ts, flipNormal |-> fl] :
        c \in Curves, t \in {-1, 0}, sp \in Spans, n \in SegCounts,
        ts \in {3, MaxTube}, fl \in {FALSE} }

SurfaceInputs ==
    { [f |-> f, uMin |-> 0, uMax |-> spu * Max(us, 1), vMin |-> -1, vMax |-> spv * Max(vs, 1) - 1,
       uSegments |-> us, vSegments |-> vs, colorByHeight |-> cb] :
        f \in Surfaces, spu \in {0, 1}, spv \in {1}, us \in SegCounts, vs \in SegCounts,
        cb \in BOOLEAN }

FrenetInputs ==
    { [c |-> c, tMin |-> t, tMax |-> t + sp, tNorm |-> tn] :
        c \in Curves, t \in {-1, 0}, sp \in Spans, tn \in {0, 1} }

\* resolutions with at most one component above 1
Resolutions ==
    { r \in ((-1)..MaxRes) \X ((-1)..MaxRes) \X ((-1)..MaxRes) :
        Cardinality({c \in 1..3 : r[c] > 1}) <= 1 }

Boxes == { [lo |-> <<-6, -6, -6>>, hi |-> <<6, 6, 6>>],
           [lo |-> <<0, 0, 0>>, hi |-> <<60, 60, 0>>] }

\* the box sides are multiples of every lattice step count drawn
FieldInputs ==
    { [f |-> f, rangeMin |-> b.lo, rangeMax |-> b.hi, resolution |-> r] :
        f \in Fields, b \in Boxes, r \in Resolutions }

\* a field whose magnitudes, 0.0006 and 0.0018 on the second box, reach above the
\* floor of maxMag
StrongField == Field("grad", <<6000, 0, 0>>, 200)

\* directions on both sides of the reference-axis threshold: |dir.y| is 0.986
\* and 0.995
SteepFields == { Field("const", <<1, 6, 0>>, 0), Field("const", <<1, 10, 0>>, 0) }

VectorInputs ==
    FieldInputs \cup
    { [f |-> f, rangeMin |-> b.lo, rangeMax |-> b.hi, resolution |-> <<r, 1, 1>>] :
        f \in {StrongField} \cup SteepFields, b \in Boxes, r \in 1..MaxRes }

\* a box so short that the samples of a slope differ by less than 1e-6
ShortBox == [lo |-> <<0, 0, 0>>, hi |-> <<4, 0, 0>>]

ScalarInputs ==
    { [g |-> g, rangeMin |-> b.lo, rangeMax |-> b.hi, resolution |-> r] :
        g \in Scalars, b \in Boxes \cup {ShortBox}, r \in Resolutions }

\* the fields undefined or zero on part of the box, on lattices along x
PartialInputs ==
    { [f |-> f, rangeMin |-> b.lo, rangeMax |-> b.hi, resolution |-> <<r, 1, 1>>] :
        f \in {RootField, StepField}, b \in Boxes, r \in 1..MaxRes }

StreamInputs ==
    { [f |-> x.f, rangeMin |-> x.rangeMin, rangeMax |-> x.rangeMax,
       resolution |-> x.resolution, stepSize |-> h] :
        x \in FieldInputs \cup PartialInputs, h \in {0, 1, -1} }

\* sample grids with u = i and v = j on the surface with a pole, scaled so that
\* neighbours are 0.06 or exactly 0.1 apart
OverlayGrids ==
    { [s |-> s, uMin |-> 0, uMax |-> Max(uc - 1, 1), vMin |-> 0, vMax |-> Max(vc - 1, 1),
       uCount |-> uc, vCount |-> vc] :
        s \in {6, 10}, uc \in (-1)..2, vc \in 0..MaxSeg }

NormalsInputs ==
    { [s |-> g.s, uMin |-> g.uMin, uMax |-> g.uMax, vMin |-> g.vMin, vMax |-> g.vMax,
       uCount |-> g.uCount, vCount |-> g.vCount, flipNormal |-> fl] :
        g \in OverlayGrids, fl \in BOOLEAN }

TangentsInputs ==
    { [s |-> g.s, uMin |-> g.uMin, uMax |-> g.uMax, vMin |-> g.vMin, vMax |-> g.vMax,
       uCount |-> g.uCount, vCount |-> g.vCount, mode |-> m] :
        g \in OverlayGrids, m \in 0..2 }

NoInput == [none |-> TRUE]

---------------------------------------------------------------------------
(* ExpressionParser (ExpressionParser.cpp) and the evaluator closures the    *)
(* application builds on it (Application.cpp 1677-1695)                      *)

\* the user-defined functions (FunctionDefinition), curves R -> R here: one
\* parser, one variable
Funcs == {"f1", "f2"}
Workers == {"w1", "w2"}

\* expression strings handed to compile, and te_compile's result: a compiled
\* expression a * t + b * t * t, or a null pointer and an error position
Sources == {"2*t", "t*t", "t+"}
NullExpr == [null |-> TRUE]
Expr(a, b) == [null |-> FALSE, a |-> a, b |-> b]
te_compile(src) ==
    CASE src = "2*t" -> [expr |-> Expr(2, 0), error |-> 0]
      [] src = "t*t" -> [expr |-> Expr(0, 1), error |-> 0]
      [] src = "t+"  -> [expr |-> NullExpr, error |-> 2]

\* te_eval(m_expr) with the bound variable holding x
te_eval(e, x) == e.a * x + e.b * x * x

\* a default-constructed parser: m_expr = nullptr, m_vars empty (a read of the
\* one cell the closures use is modelled from its first value, 0.0)
NewParser == [m_expr |-> NullExpr, m_vars |-> 0]

isValid(parser) == ~parser.m_expr.null

\* ExpressionParser::free
free(parser) == [parser EXCEPT !.m_expr = NullExpr]

\* a compile that builds the new expression first and replaces the old one only
\* on success
compile_keepsOldOnFailure(parser, src) ==
    LET c == te_compile(src)
    IN  IF c.expr.null
        THEN [parser |-> parser, ret |-> FALSE,
              errorMsg |-> <<"Parse error at position ", c.error>>]
        ELSE [parser |-> [parser EXCEPT !.m_expr = c.expr], ret |-> TRUE, errorMsg |-> <<>>]

\* ExpressionParser::compile(expr, varNames, errorMsg): the parser afterwards,
\* the value returned and errorMsg (<<>> is the empty string); m_vars.resize
\* keeps the values of the cells it already has
compile(parser, src) ==
    LET freed == free(parser)
        c     == te_compile(src)
        after == [freed EXCEPT !.m_expr = c.expr]
    IN  IF c.expr.null
        THEN [parser |-> after, ret |-> FALSE,
              errorMsg |-> <<"Parse error at position ", c.error>>]
        ELSE [parser |-> after, ret |-> TRUE, errorMsg |-> <<>>]

\* the storage evaluate writes and te_eval reads for function f: the m_vars of
\* f's own parser
StorageOf_shared(f) == "f1"

StorageOf(f) == f

\* evaluate's copy loop, m_vars[i] = values[i]: the new content of the cell
CopyValues_accumulates(old, value) == old + value

CopyValues(old, value) == value

\* the curve the closure curveFunc computes on a parser, t -> (t, fx, 0) with
\* fx = parsers[0].evaluate(vals): evaluate returns 0.0 on an invalid parser
ParserCurve(parser) ==
    IF isValid(parser) THEN Curve(<<1, parser.m_expr.a, 0>>, <<0, parser.m_expr.b, 0>>)
    ELSE Curve(<<1, 0, 0>>, <<0, 0, 0>>)

\* a worker that runs no call
IdleWorker == [pc |-> "idle"]

NoCompile == [f |-> "none"]
NotKept == [kept |-> FALSE]

\* the arguments of a worker's call, as the caller would name the call
CallKey(w) == [f |-> w.f, tMin |-> w.tMin, tMax |-> w.tMax, segments |-> w.segments]

---------------------------------------------------------------------------
(* The frame loop of Application (Application.cpp): vertex buffers, their    *)
(* deferred release, the throttled rebuild and the function list.  Functions *)
(* are curves (inputDim = 1); a buffer handle is its index in gpu, 0 is      *)
(* nullptr                                                                   *)

nullptr == 0

\* expression strings the function panel holds: one that compiles, one that
\* does not
FrameSources == {"2*t", "t+"}
OutputDims == {1, 2, 3}

\* FunctionDefinition: the members the rebuild depends on, with the defaults of
\* Application.h; isValid is false until compileFunctionDef ran
FunctionDefinition(exprStrings) ==
    [outputDim |-> 3, exprStrings |-> exprStrings,
     parsers |-> <<NewParser, NewParser, NewParser>>,
     isValid |-> FALSE, errorMsg |-> <<>>, show |-> TRUE, wireframe |-> FALSE]

\* a compileFunctionDef whose isValid is the outcome of the last component only
RECURSIVE CompileFrom_lastWins(_, _)
CompileFrom_lastWins(fd, i) ==
    IF i > fd.outputDim THEN fd
    ELSE LET r == compile(fd.parsers[i], fd.exprStrings[i])
             next == [fd EXCEPT !.parsers[i] = r.parser, !.isValid = r.ret,
                                !.errorMsg = IF r.ret THEN <<>>
                                             ELSE <<"f", i, ": ", r.errorMsg>>]
         IN  CompileFrom_lastWins(next, i + 1)

\* the loop of compileFunctionDef from component i on (i = 1 is the code's
\* i = 0, so the message names component i): return at the first failure
RECURSIVE CompileFrom(_, _)
CompileFrom(fd, i) ==
    IF i > fd.outputDim THEN fd
    ELSE LET r == compile(fd.parsers[i], fd.exprStrings[i])
         IN  IF ~r.ret
             THEN [fd EXCEPT !.parsers[i] = r.parser, !.isValid = FALSE,
                             !.errorMsg = <<"f", i, ": ", r.errorMsg>>]
             ELSE CompileFrom([fd EXCEPT !.parsers[i] = r.parser], i + 1)

compileFunctionDef(fd) == CompileFrom([fd EXCEPT !.isValid = TRUE, !.errorMsg = <<>>], 1)

\* the Application object after construction (Application.h initializers)
NewApplication ==
    [m_pendingBufferReleases |-> <<>>,
     m_surfaceVertexBuffer |-> nullptr, m_surfaceVertexCount |-> 0,
     m_curveVertexBuffer |-> nullptr, m_curveVertexCount |-> 0,
     m_axesVertexBuffer |-> nullptr, m_axesVertexCount |-> 0,
     m_showAxes |-> TRUE,
     m_graphObjectsDirty |-> TRUE, m_axesDirty |-> FALSE,
     m_framesSinceLastUpdate |-> 0,
     m_functions |-> <<>>]

\* the program and the device: x.app is the Application object, x.gpu the
\* buffers created so far, x.obs the record of what the calls did
World(a, g, o) == [app |-> a, gpu |-> g, obs |-> o]

NoObs ==
    [bound |-> {}, evaluated |-> {}, rebuilt |-> FALSE, built |-> FALSE,
     waited |-> 0, frames |-> 0, edits |-> 0]

\* wgpuDeviceCreateBuffer: a new handle
CreateBuffer(g, maker) ==
    Append(g, [maker |-> maker, destroys |-> 0, by |-> "none",
               deferred |-> FALSE, age |-> 0])
NewHandle(g) == Len(g) + 1

\* wgpuBufferDestroy + wgpuBufferRelease, called from `by`
DestroyBuffer(g, b, by) ==
    [g EXCEPT ![b].destroys = @ + 1, ![b].by = by]

\* deferBufferRelease(buffer)
deferBufferRelease(x, buffer) ==
    IF buffer # nullptr
    THEN [x EXCEPT !.app.m_pendingBufferReleases =
                       Append(@, [buffer |-> buffer, frames |-> BUFFER_RELEASE_DELAY]),
                   !.gpu[buffer].deferred = TRUE]
    ELSE x

\* a processPendingReleases that destroys an entry one call late (< 0)
Expired_late(frames) == frames < 0

\* it->second <= 0, after the decrement
Expired(frames) == frames <= 0

\* processPendingReleases from entry k of the list on: every entry counts one
\* call; an expired one is destroyed and erased
RECURSIVE ReleaseFrom(_, _, _)
ReleaseFrom(pending, g, k) ==
    IF k > Len(pending) THEN [pending |-> <<>>, gpu |-> g]
    ELSE LET e == [pending[k] EXCEPT !.frames = @ - 1]
             seen == [g EXCEPT ![e.buffer].age = @ + 1]
         IN  IF Expired(e.frames)
             THEN ReleaseFrom(pending, DestroyBuffer(seen, e.buffer, "processPendingReleases"),
                              k + 1)
             ELSE LET rest == ReleaseFrom(pending, seen, k + 1)
                  IN  [pending |-> <<e>> \o rest.pending, gpu |-> rest.gpu]

processPendingReleases(x) ==
    LET r == ReleaseFrom(x.app.m_pendingBufferReleases, x.gpu, 1)
    IN  [x EXCEPT !.app.m_pendingBufferReleases = r.pending, !.gpu = r.gpu]

\* the members of the three vertex buffers the frame draws
Slots == {"axes", "surface", "curve"}
BufferOf(slot) ==
    CASE slot = "axes" -> "m_axesVertexBuffer"
      [] slot = "surface" -> "m_surfaceVertexBuffer"
      [] slot = "curve" -> "m_curveVertexBuffer"
CountOf(slot) ==
    CASE slot = "axes" -> "m_axesVertexCount"
      [] slot = "surface" -> "m_surfaceVertexCount"
      [] slot = "curve" -> "m_curveVertexCount"

\* a deferral that leaves the old pointer in place
DeferCurrent_keepsPointer(x, slot) ==
    LET old == x.app[BufferOf(slot)]
    IN  IF old # nullptr
        THEN [deferBufferRelease(x, old) EXCEPT !.app[CountOf(slot)] = 0]
        ELSE x

\* if (m_...VertexBuffer) { deferBufferRelease(...); ... = nullptr; ...Count = 0; }
DeferCurrent(x, slot) ==
    LET old == x.app[BufferOf(slot)]
    IN  IF old # nullptr
        THEN [deferBufferRelease(x, old) EXCEPT !.app[BufferOf(slot)] = nullptr,
                                                !.app[CountOf(slot)] = 0]
        ELSE x

\* if (!data.empty()) { buffer = wgpuDeviceCreateBuffer(...); count = data.size(); }
Upload(x, slot, size) ==
    IF size > 0
    THEN [x EXCEPT !.gpu = CreateBuffer(@, slot),
                   !.app[BufferOf(slot)] = NewHandle(x.gpu),
                   !.app[CountOf(slot)] = size]
    ELSE x

\* rebuildAxesBuffer: the six vertices of the principal axes are always there
\* (grid lines, which only add vertices, are left out)
rebuildAxesBuffer(x) ==
    [Upload(DeferCurrent(x, "axes"), "axes", 6) EXCEPT !.app.m_axesDirty = FALSE]

\* a throttle that waits one call more
Throttled_three(frames) == frames < 3

\* if (m_framesSinceLastUpdate < 2) return;
Throttled(frames) == frames < 2

\* if (!fd.show || !fd.isValid) continue;
Evaluates(fd) == fd.show /\ fd.isValid

\* the functions whose evaluators the rebuild loop calls, as they are then
Evaluated(functions) ==
    {[fi |-> fi, fd |-> functions[fi]] : fi \in {k \in DOMAIN functions : Evaluates(functions[k])}}

\* the sizes of surfaceVerts and lineVerts, in meshes: a curve adds its tube to
\* surfaceVerts, or with wireframe its polyline to lineVerts (resolution is at
\* least 10, so neither is empty; overlays, which only add to surfaceVerts
\* of a function already counted, are left out)
SurfaceVerts(functions) ==
    Cardinality({e \in Evaluated(functions) : ~e.fd.wireframe})
LineVerts(functions) ==
    Cardinality({e \in Evaluated(functions) : e.fd.wireframe})

\* updateGraphObjects after the throttle: the rebuild
Rebuild(x) ==
    LET cleared == [x EXCEPT !.app.m_framesSinceLastUpdate = 0,
                             !.app.m_graphObjectsDirty = FALSE]
        deferred == DeferCurrent(DeferCurrent(cleared, "surface"), "curve")
        fs == x.app.m_functions
        up == Upload(Upload(deferred, "surface", SurfaceVerts(fs)), "curve", LineVerts(fs))
    IN  [up EXCEPT !.obs.rebuilt = TRUE, !.obs.built = TRUE, !.obs.waited = 0,
                   !.obs.evaluated = Evaluated(fs)]

\* updateGraphObjects
updateGraphObjects(x) ==
    LET x1 == IF x.app.m_axesDirty THEN rebuildAxesBuffer(x) ELSE x
        frames == x1.app.m_framesSinceLastUpdate + 1
    IN  IF ~x1.app.m_graphObjectsDirty THEN [x1 EXCEPT !.obs.rebuilt = FALSE]
        ELSE IF Throttled(frames)
             THEN [x1 EXCEPT !.app.m_framesSinceLastUpdate = frames,
                             !.obs.rebuilt = FALSE, !.obs.waited = @ + 1]
             ELSE Rebuild(x1)

\* initGraphObjects: the default helix, three expressions that compile
initGraphObjects(x) ==
    LET helix == compileFunctionDef(FunctionDefinition(<<"2*t", "2*t", "2*t">>))
    IN  updateGraphObjects([x EXCEPT !.app.m_functions = Append(@, helix)])

\* the vertex buffers onFrame binds: each under its guard
Bound(a) ==
    {[slot |-> s, buffer |-> a[BufferOf(s)]] :
        s \in {t \in Slots : /\ a[CountOf(t)] > 0
                             /\ a[BufferOf(t)] # nullptr
                             /\ (t = "axes" => a.m_showAxes)}}

\* terminateGraphObjects: the current surface and curve buffers, then the
\* pending list
RECURSIVE Flush(_, _, _)
Flush(pending, g, k) ==
    IF k > Len(pending) THEN g
    ELSE Flush(pending, DestroyBuffer(g, pending[k].buffer, "terminateGraphObjects"), k + 1)

Terminate(x, slot) ==
    LET b == x.app[BufferOf(slot)]
    IN  IF b # nullptr
        THEN [x EXCEPT !.gpu = DestroyBuffer(@, b, "terminateGraphObjects"),
                       !.app[BufferOf(slot)] = nullptr,
                       !.app[CountOf(slot)] = 0]
        ELSE x

terminateGraphObjects(x) ==
    LET t == Terminate(Terminate(x, "surface"), "curve")
    IN  [t EXCEPT !.gpu = Flush(t.app.m_pendingBufferReleases, @, 1),
                  !.app.m_pendingBufferReleases = <<>>]

\* updateGui, "Recompile all expressions when dirty"
RecompileAll(a) ==
    [a EXCEPT !.m_functions = [fi \in DOMAIN @ |-> compileFunctionDef(@[fi])],
              !.m_graphObjectsDirty = TRUE]

\* the function panel: what one changed widget writes before the recompile
EditShow(a, fi) == [a EXCEPT !.m_functions[fi].show = ~@]
EditWireframe(a, fi) == [a EXCEPT !.m_functions[fi].wireframe = ~@]
EditOutputDim(a, fi, m) == [a EXCEPT !.m_functions[fi].outputDim = m]
EditExpr(a, fi, i, src) == [a EXCEPT !.m_functions[fi].exprStrings[i] = src]
RemoveFunction(a, fi) ==
    [a EXCEPT !.m_functions = SubSeq(@, 1, fi - 1) \o SubSeq(@, fi + 1, Len(@))]
AddFunction(a) ==
    [a EXCEPT !.m_functions =
                  Append(@, compileFunctionDef(FunctionDefinition(<<"2*t", "2*t", "2*t">>)))]

---------------------------------------------------------------------------
(* The caller: one generator call at a time *)

Init ==
    /\ pc = "idle"
    /\ gen = "none"
    /\ in = NoInput
    /\ verts = <<>>
    /\ color = NeutralColor
    /\ evals = 0
    /\ lat = 0
    /\ pos = Zero3
    /\ stepI = 0
    /\ streamline = <<>>
    /\ evalsPt = 0
    /\ parsers = [f \in Funcs |-> NewParser]
    /\ lastCompile = NoCompile
    /\ thr = [w \in Workers |-> IdleWorker]
    /\ kept = NotKept
    /\ fpc = "start"
    /\ app = NewApplication
    /\ gpu = <<>>
    /\ obs = NoObs

\* a generator called with arguments a returns (or throws) r
Return(name, a, r) ==
    /\ pc = "idle"
    /\ pc' = IF r.threw THEN "threw" ELSE "returned"
    /\ gen' = name
    /\ in' = a
    /\ verts' = r.verts
    /\ evals' = r.evals
    /\ UNCHANGED <<color, streamVars>>
    /\ UNCHANGED <<appVars, frameVars>>

Call_magnitudeToColor ==
    \E k \in ColorInputs :
        /\ pc = "idle"
        /\ pc' = "returned"
        /\ gen' = "magnitudeToColor"
        /\ in' = [n |-> k, d |-> 4 * ColorRes]
        /\ color' = magnitudeToColor(k, 4 * ColorRes)
        /\ UNCHANGED <<verts, evals, streamVars>>
        /\ UNCHANGED <<appVars, frameVars>>

Call_heightToColor ==
    \E h \in Heights, lo \in Heights, hi \in Heights :
        /\ pc = "idle"
        /\ pc' = "returned"
        /\ gen' = "heightToColor"
        /\ in' = [height |-> h, minH |-> lo, maxH |-> hi]
        /\ color' = heightToColor(h, lo, hi)
        /\ UNCHANGED <<verts, evals, streamVars>>
        /\ UNCHANGED <<appVars, frameVars>>

Call_generateParametricCurve ==
    \E a \in CurveInputs :
        Return("generateParametricCurve", a,
               generateParametricCurve(a.c, a.tMin, a.tMax, a.n))

Call_generateParametricCurveTube ==
    \E a \in CurveInputs :
        Return("generateParametricCurveTube", a,
               generateParametricCurveTube(a.c, a.tMin, a.tMax, a.n, a.tubeSegments))

Call_generateTangentVectors ==
    \E a \in CurveInputs :
        Return("generateTangentVectors", a,
               generateTangentVectors(a.c, a.tMin, a.tMax, a.n))

Call_generateCurveNormals ==
    \E a \in CurveInputs :
        Return("generateCurveNormals", a,
               generateCurveNormals(a.c, a.tMin, a.tMax, a.n, a.flipNormal))

Call_generateFrenetFrame ==
    \E a \in FrenetInputs :
        Return("generateFrenetFrame", a, generateFrenetFrame(a.c, a.tMin, a.tMax, a.tNorm))

Call_generateParametricSurface ==
    \E a \in SurfaceInputs :
        Return("generateParametricSurface", a, generateParametricSurface(a))

Call_generateParametricSurfaceWireframe ==
    \E a \in SurfaceInputs :
        Return("generateParametricSurfaceWireframe", a, generateParametricSurfaceWireframe(a))

Call_generateVectorField ==
    \E a \in VectorInputs : Return("generateVectorField", a, generateVectorField(a))

Call_generateGradientField3D ==
    \E a \in ScalarInputs : Return("generateGradientField3D", a, generateGradientField3D(a))

Call_generateSurfaceNormals ==
    \E a \in NormalsInputs : Return("generateSurfaceNormals", a, generateSurfaceNormals(a))

Call_generateSurfaceTangents ==
    \E a \in TangentsInputs : Return("generateSurfaceTangents", a, generateSurfaceTangents(a))

Call_generateArrowMesh ==
    \E a \in ArrowInputs :
        Return("generateArrowMesh", a, Result(generateArrowMesh(a.segments), 0))

Call_generateScalarField ==
    \E a \in ScalarInputs : Return("generateScalarField", a, generateScalarField(a))

\* generateStreamlines is entered: allVerts is empty
StreamCall ==
    \E a \in StreamInputs :
        /\ pc = "idle"
        /\ pc' = "lattice"
        /\ gen' = "generateStreamlines"
        /\ in' = a
        /\ verts' = <<>>
        /\ evals' = 0
        /\ lat' = 0
        /\ UNCHANGED <<color, pos, stepI, streamline, evalsPt>>
        /\ UNCHANGED <<appVars, frameVars>>

\* the next lattice point: streamline.push_back(pos)
StreamBegin ==
    /\ pc = "lattice"
    /\ lat < LatticeCount(in.resolution)
    /\ pos' = LatticePos(in, lat + 1)
    /\ streamline' = << LatticePos(in, lat + 1) >>
    /\ stepI' = 0
    /\ evalsPt' = 0
    /\ pc' = "integrate"
    /\ UNCHANGED <<gen, in, verts, color, evals, lat>>
    /\ UNCHANGED <<appVars, frameVars>>

\* one iteration of the integration loop
StreamStep ==
    /\ pc = "integrate"
    /\ StepGuard(stepI)
    /\ LET vel    == RK4(in.f, pos, in.stepSize)
           newPos == Advance(pos, vel, in.stepSize, 1)
       IN  /\ evals' = evals + 4
           /\ evalsPt' = evalsPt + 4
           /\ IF MagBelow6(vel) \/ OutOfBounds(in, newPos)
              THEN /\ pc' = "emit"                       \* break
                   /\ UNCHANGED <<pos, streamline, stepI>>
              ELSE /\ pos' = newPos
                   /\ streamline' = Append(streamline, newPos)
                   /\ stepI' = stepI + 1
                   /\ pc' = "integrate"
    /\ UNCHANGED <<gen, in, verts, color, lat>>
    /\ UNCHANGED <<appVars, frameVars>>

\* the loop condition fails
StreamLoopExit ==
    /\ pc = "integrate"
    /\ ~StepGuard(stepI)
    /\ pc' = "emit"
    /\ UNCHANGED <<gen, in, verts, color, evals, streamVars>>
    /\ UNCHANGED <<appVars, frameVars>>

\* the streamline is converted to line segments
StreamEmit ==
    /\ pc = "emit"
    /\ verts' = verts \o StreamSegments(streamline, StreamColor(in, lat + 1))
    /\ lat' = lat + 1
    /\ pc' = "lattice"
    /\ UNCHANGED <<gen, in, color, evals, pos, stepI, streamline, evalsPt>>
    /\ UNCHANGED <<appVars, frameVars>>

StreamReturn ==
    /\ pc = "lattice"
    /\ lat >= LatticeCount(in.resolution)
    /\ pc' = "returned"
    /\ UNCHANGED <<gen, in, verts, color, evals, streamVars>>
    /\ UNCHANGED <<appVars, frameVars>>

\* the caller drops the result and may call again
Discard ==
    /\ pc \in {"returned", "threw"}
    /\ pc' = "idle"
    /\ gen' = "none"
    /\ in' = NoInput
    /\ verts' = <<>>
    /\ color' = NeutralColor
    /\ evals' = 0
    /\ lat' = 0
    /\ pos' = Zero3
    /\ stepI' = 0
    /\ streamline' = <<>>
    /\ evalsPt' = 0
    /\ UNCHANGED <<appVars, frameVars>>

Streamlines ==
    \/ StreamCall
    \/ StreamBegin
    \/ StreamStep
    \/ StreamLoopExit
    \/ StreamEmit
    \/ StreamReturn

Next ==
    \/ Call_magnitudeToColor
    \/ Call_heightToColor
    \/ Call_generateParametricCurve
    \/ Call_generateParametricCurveTube
    \/ Call_generateTangentVectors
    \/ Call_generateCurveNormals
    \/ Call_generateFrenetFrame
    \/ Call_generateParametricSurface
    \/ Call_generateParametricSurfaceWireframe
    \/ Call_generateVectorField
    \/ Call_generateGradientField3D
    \/ Call_generateScalarField
    \/ Call_generateArrowMesh
    \/ Call_generateSurfaceNormals
    \/ Call_generateSurfaceTangents
    \/ Streamlines
    \/ Discard

Spec == Init /\ [][Next]_vars

---------------------------------------------------------------------------
(* The application: functions are compiled, then workers run curve calls on  *)
(* them, one call per function at a time, their steps interleaved            *)

\* compileFunctionDef calls compile on a function's parser; no call is running,
\* and the caller holds no mesh of the evaluators it replaces
Compile ==
    \E f \in Funcs, src \in Sources :
        /\ \A w \in Workers : thr[w].pc = "idle"
        /\ ~kept.kept
        /\ LET r == compile(parsers[f], src)
           IN  /\ parsers' = [parsers EXCEPT ![f] = r.parser]
               /\ lastCompile' = [f |-> f, src |-> src, ret |-> r.ret, errorMsg |-> r.errorMsg,
                                   wasValid |-> isValid(parsers[f])]
        /\ UNCHANGED <<thr, kept, coreVars, frameVars>>

\* a worker enters generateParametricCurve(curveFunc of f, tMin, tMax, segments);
\* no other worker is running a call on f
CurveStart(w) ==
    \E f \in Funcs, segments \in 1..MaxWorkSeg :
        /\ thr[w].pc = "idle"
        /\ \A o \in Workers \ {w} : thr[o].pc # "idle" => thr[o].f # f
        /\ thr' = [thr EXCEPT ![w] =
                      [pc |-> "loop", f |-> f, tMin |-> -1, tMax |-> segments - 1,
                       segments |-> segments, i |-> 0, p0 |-> Zero3, verts |-> <<>>]]
        /\ UNCHANGED <<parsers, lastCompile, kept, coreVars, frameVars>>

\* for (int i = 0; i < segments; ++i)
CurveLoop(w) ==
    /\ thr[w].pc = "loop"
    /\ thr' = [thr EXCEPT ![w].pc = IF thr[w].i < thr[w].segments THEN "copy0" ELSE "done"]
    /\ UNCHANGED <<parsers, lastCompile, kept, coreVars, frameVars>>

\* the parameter of the evaluation the worker is in: t0 or t1
WorkerParam(x) ==
    LET dt == (x.tMax - x.tMin) \div x.segments
    IN  IF x.pc \in {"copy0", "eval0"} THEN x.tMin + x.i * dt ELSE x.tMin + (x.i + 1) * dt

\* curveFunc returned vec3(t, fx, 0): p0 is kept, p1 completes the pair
AfterEvaluate(x, fx) ==
    LET p == <<WorkerParam(x), fx, 0>>
    IN  IF x.pc \in {"copy0", "eval0"}
        THEN [x EXCEPT !.pc = "copy1", !.p0 = p]
        ELSE [x EXCEPT !.pc = "loop", !.i = x.i + 1,
                       !.verts = x.verts \o << LineVertex(x.p0), LineVertex(p) >>]

\* evaluate, first part: return 0.0 on an invalid parser, else copy the values
\* into the bound storage
EvaluateCopy(w) ==
    /\ thr[w].pc \in {"copy0", "copy1"}
    /\ LET x == thr[w]
           cell == StorageOf(x.f)
       IN  IF ~isValid(parsers[x.f])
           THEN /\ thr' = [thr EXCEPT ![w] = AfterEvaluate(x, 0)]
                /\ UNCHANGED parsers
           ELSE /\ parsers' = [parsers EXCEPT ![cell].m_vars =
                                   CopyValues(parsers[cell].m_vars, WorkerParam(x))]
                /\ thr' = [thr EXCEPT ![w].pc = IF x.pc = "copy0" THEN "eval0" ELSE "eval1"]
    /\ UNCHANGED <<lastCompile, kept, coreVars, frameVars>>

\* evaluate, second part: return te_eval(m_expr), which reads the bound storage
EvaluateRun(w) ==
    /\ thr[w].pc \in {"eval0", "eval1"}
    /\ LET x == thr[w]
       IN  thr' = [thr EXCEPT ![w] =
                      AfterEvaluate(x, te_eval(parsers[x.f].m_expr,
                                               parsers[StorageOf(x.f)].m_vars))]
    /\ UNCHANGED <<parsers, lastCompile, kept, coreVars, frameVars>>

\* the call has returned; the caller takes the mesh and may keep the first one
CurveCollect(w) ==
    /\ thr[w].pc = "done"
    /\ thr' = [thr EXCEPT ![w] = IdleWorker]
    /\ \/ UNCHANGED kept
       \/ /\ ~kept.kept
          /\ kept' = [kept |-> TRUE, call |-> CallKey(thr[w]), verts |-> thr[w].verts]
    /\ UNCHANGED <<parsers, lastCompile, coreVars, frameVars>>

Worker(w) ==
    \/ CurveStart(w)
    \/ CurveLoop(w)
    \/ EvaluateCopy(w)
    \/ EvaluateRun(w)
    \/ CurveCollect(w)

NextApp ==
    \/ Compile
    \/ \E w \in Workers : Worker(w)

SpecApp == Init /\ [][NextApp]_vars

---------------------------------------------------------------------------
(* main(): onInit, then onFrame while the window is open, then onFinish.     *)
(* onFrame is taken one call at a time: processPendingReleases,              *)
(* updateGraphObjects, the draws of the render pass, updateGui               *)

Now == World(app, gpu, obs)

Becomes(x) ==
    /\ app' = x.app
    /\ gpu' = x.gpu
    /\ obs' = x.obs

\* onInit: rebuildAxesBuffer(), later initGraphObjects()
OnInit ==
    /\ fpc = "start"
    /\ Becomes(initGraphObjects(rebuildAxesBuffer(Now)))
    /\ fpc' = "running"
    /\ UNCHANGED <<appVars, coreVars>>

Frame_processPendingReleases ==
    /\ fpc = "running"
    /\ Becomes(processPendingReleases(Now))
    /\ fpc' = "released"
    /\ UNCHANGED <<appVars, coreVars>>

Frame_updateGraphObjects ==
    /\ fpc = "released"
    /\ Becomes(updateGraphObjects(Now))
    /\ fpc' = "updated"
    /\ UNCHANGED <<appVars, coreVars>>

\* the three guarded wgpuRenderPassEncoderSetVertexBuffer / Draw pairs
Frame_draw ==
    /\ fpc = "updated"
    /\ obs' = [obs EXCEPT !.bound = Bound(app)]
    /\ fpc' = "drawn"
    /\ UNCHANGED <<app, gpu, appVars, coreVars>>

\* what the changed widget of the function panel leaves in the Application,
\* before the recompile: a widget returns true when its value changed
FunctionEdits(a) ==
    LET fs == a.m_functions
    IN  UNION {
          {EditShow(a, fi) : fi \in DOMAIN fs},
          {EditWireframe(a, fi) : fi \in DOMAIN fs},
          UNION {{EditOutputDim(a, fi, m) : m \in OutputDims \ {fs[fi].outputDim}} :
                    fi \in DOMAIN fs},
          UNION {UNION {{EditExpr(a, fi, i, src) :
                            src \in FrameSources \ {fs[fi].exprStrings[i]}} :
                           i \in 1..fs[fi].outputDim} : fi \in DOMAIN fs},
          {RemoveFunction(a, fi) : fi \in DOMAIN fs},
          IF Len(fs) < MaxFunctions THEN {AddFunction(a)} ELSE {} }

EndFrame(o) == [o EXCEPT !.frames = IF @ < 2 THEN @ + 1 ELSE @]

\* updateGui with no widget changed
Gui_NoEdit ==
    /\ fpc = "drawn"
    /\ obs' = EndFrame(obs)
    /\ fpc' = "running"
    /\ UNCHANGED <<app, gpu, appVars, coreVars>>

\* updateGui with a widget of the function panel changed: dirty
Gui_EditFunction ==
    /\ fpc = "drawn"
    /\ obs.edits < MaxEdits
    /\ \E edited \in FunctionEdits(app) : app' = RecompileAll(edited)
    /\ obs' = [EndFrame(obs) EXCEPT !.edits = @ + 1]
    /\ fpc' = "running"
    /\ UNCHANGED <<gpu, appVars, coreVars>>

\* updateGui with a widget of "Axes & Grid" changed: axesDirty
Gui_EditAxes ==
    /\ fpc = "drawn"
    /\ obs.edits < MaxEdits
    /\ \E showAxes \in BOOLEAN :
          app' = [app EXCEPT !.m_showAxes = showAxes, !.m_axesDirty = TRUE]
    /\ obs' = [EndFrame(obs) EXCEPT !.edits = @ + 1]
    /\ fpc' = "running"
    /\ UNCHANGED <<gpu, appVars, coreVars>>

\* onFinish: terminateGraphObjects(); the other terminate calls touch none of
\* these buffers
OnFinish ==
    /\ fpc = "running"
    /\ Becomes(terminateGraphObjects(Now))
    /\ fpc' = "finished"
    /\ UNCHANGED <<appVars, coreVars>>

NextFrame ==
    \/ OnInit
    \/ Frame_processPendingReleases
    \/ Frame_updateGraphObjects
    \/ Frame_draw
    \/ Gui_NoEdit
    \/ Gui_EditFunction
    \/ Gui_EditAxes
    \/ OnFinish

SpecFrame == Init /\ [][NextFrame]_vars

---------------------------------------------------------------------------
(* Claims *)

Returned(name) == pc = "returned" /\ gen = name

\* C1: generateParametricCurveTube with segments = s >= 1 and tubeSegments = n >= 3
\* returns exactly s * n * 6 vertices: six per ring quad (i, j), the quad's second
\* ring index being (j + 1) mod n, so that the last quad of a ring wraps to 0.
C1_TubeVertexCount ==
    (Returned("generateParametricCurveTube") /\ in.n >= 1 /\ in.tubeSegments >= 3) =>
        /\ Len(verts) = in.n * in.tubeSegments * 6
        /\ \A q \in 0..(in.n * in.tubeSegments - 1) :
              LET i == q \div in.tubeSegments
                  j == q % in.tubeSegments
                  j1 == IF j = in.tubeSegments - 1 THEN 0 ELSE j + 1
              IN  /\ <<verts[6 * q + 1].ci, verts[6 * q + 1].ri>> = <<i, j>>
                  /\ <<verts[6 * q + 2].ci, verts[6 * q + 2].ri>> = <<i, j1>>
                  /\ <<verts[6 * q + 3].ci, verts[6 * q + 3].ri>> = <<i + 1, j>>
                  /\ <<verts[6 * q + 4].ci, verts[6 * q + 4].ri>> = <<i + 1, j>>
                  /\ <<verts[6 * q + 5].ci, verts[6 * q + 5].ri>> = <<i, j1>>
                  /\ <<verts[6 * q + 6].ci, verts[6 * q + 6].ri>> = <<i + 1, j1>>

C1_Witness ==
    /\ Returned("generateParametricCurveTube")
    /\ in.n = 2 /\ in.tubeSegments = 3
    /\ Len(verts) = 36
    /\ verts[14].ri = 0 /\ verts[13].ri = 2

\* C2: generateParametricSurface and generateParametricSurfaceWireframe called with
\* uSegments < 1 or vSegments < 1 return an empty mesh and raise no exception.
C2_DegenerateSurfaceEmpty ==
    ( /\ gen \in {"generateParametricSurface", "generateParametricSurfaceWireframe"}
      /\ (in.uSegments < 1 \/ in.vSegments < 1) ) =>
        (pc = "returned" /\ verts = <<>>)

\* C3: generateParametricCurve and generateParametricCurveTube called with
\* segments < 1, generateTangentVectors and generateCurveNormals called with
\* count < 1, return an empty mesh, for every curve and parameter range.
C3_CurveGeneratorsEmptyBelowOne ==
    ( /\ gen \in {"generateParametricCurve", "generateParametricCurveTube",
                  "generateTangentVectors", "generateCurveNormals"}
      /\ in.n < 1 ) =>
        (pc = "returned" /\ verts = <<>>)

C3_Witness ==
    /\ Returned("generateParametricCurve")
    /\ in.n = 0 /\ in.tMax > in.tMin /\ in.c.a1 # Zero3
    /\ verts = <<>>

\* C4: generateVectorField, generateScalarField, generateGradientField3D and
\* generateStreamlines return an empty mesh and never call the evaluator when a
\* component of resolution is below 1.
C4_LatticeEmptyNoEvaluation ==
    ( /\ gen \in {"generateVectorField", "generateScalarField",
                  "generateGradientField3D", "generateStreamlines"}
      /\ \E c \in 1..3 : in.resolution[c] < 1 ) =>
        /\ pc \in {"lattice", "returned"}
        /\ verts = <<>>
        /\ evals = 0

C4_Witness ==
    /\ Returned("generateVectorField")
    /\ in.resolution = <<2, 0, 1>>
    /\ in.f.c = <<12, 0, 0>>
    /\ verts = <<>> /\ evals = 0

\* C5: generateStreamlines always halts: at each lattice point the integration
\* loop runs at most 200 steps and makes at most 800 field evaluations, the
\* streamline has at most 201 points, so that each lattice point adds at most
\* 400 vertices; and every call returns.
C5_BoundedAtEachPoint ==
    gen = "generateStreamlines" =>
        /\ stepI <= 200
        /\ evalsPt <= 800
        /\ (pc = "integrate" => evalsPt = 4 * stepI)
        /\ Len(streamline) <= 201
        /\ Len(verts) <= 400 * lat
        /\ evals <= 800 * (lat + 1)

\* the place of a running call in its loops: the lattice point, then the position
\* in the loop body (begin, integration step stepI, emit)
Running == gen = "generateStreamlines" /\ pc # "returned"
Rank ==
    lat * (maxSteps + 3) + (CASE pc = "lattice"   -> 0
                   [] pc = "integrate" -> 1 + stepI
                   [] pc = "emit"      -> maxSteps + 2
                   [] OTHER            -> 0)

\* every step of a running call moves it forward in its loops or returns, and
\* the place is bounded
C5_StreamlinesHalt ==
    /\ []C5_BoundedAtEachPoint
    /\ [](Running => (/\ pc \in {"lattice", "integrate", "emit"}
                       /\ Rank <= (maxSteps + 3) * LatticeCount(in.resolution)))
    /\ [][Running => (pc' = "returned" \/ Rank' > Rank)]_vars

\* the loop ran its 200 steps: neither the stagnation nor the bounds test fired
C5_Witness ==
    /\ gen = "generateStreamlines" /\ pc = "returned"
    /\ in.resolution = <<1, 1, 2>>
    /\ Len(verts) = 800 /\ evals = 1600

\* C6: generateVectorField emits exactly one 90-vertex arrow for each lattice
\* sample whose field magnitude is at least 1e-6, in lattice order, and nothing
\* for the other samples; a field that is zero at every sample gives an empty mesh.
NonNegligible(a) ==
    { k \in 1..LatticeCount(a.resolution) :
        Dot3(FieldAt(a.f, LatticePos(a, k)), FieldAt(a.f, LatticePos(a, k))) >= Eps6 * Eps6 }

\* the number of elements of S below k
RankIn(S, k) == Cardinality({ x \in S : x < k })

C6_OneArrowPerSample ==
    Returned("generateVectorField") =>
        /\ Len(verts) = 90 * Cardinality(NonNegligible(in))
        /\ \A k \in NonNegligible(in) :
              \A r \in 1..90 : verts[90 * RankIn(NonNegligible(in), k) + r].at = LatticePos(in, k)
        /\ (\A k \in 1..LatticeCount(in.resolution) :
                FieldAt(in.f, LatticePos(in, k)) = Zero3) => verts = <<>>

\* a sink sampled at the origin, where it is zero, and at one more point
C6_Witness ==
    /\ Returned("generateVectorField")
    /\ in.f.kind = "radial" /\ in.resolution = <<2, 1, 1>> /\ in.rangeMin = Zero3
    /\ Len(verts) = 90

\* C7: generateParametricCurveTube never produces NaN, whatever the curve: no
\* vertex of the returned mesh has a NaN position or normal.
C7_TubeNeverNaN ==
    Returned("generateParametricCurveTube") =>
        \A q \in 1..Len(verts) : ~verts[q].nan

\* C8: in generateParametricCurveTube every sample's frame is orthonormal: tangent,
\* normal and binormal are unit vectors, the normal is perpendicular to the
\* tangent, and the binormal, cross(tangent, normal), is perpendicular to both.
Orthonormal(fr) ==
    /\ IsUnit(fr.t) /\ IsUnit(fr.n) /\ IsUnit(fr.b)
    /\ Perp(fr.n, fr.t) /\ Perp(fr.b, fr.t) /\ Perp(fr.b, fr.n)

C8_FramesOrthonormal ==
    (Returned("generateParametricCurveTube") /\ in.n >= 1) =>
        LET frames == FramesOf(in.c, in.tMin, in.tMax, in.n)
        IN  \A k \in 1..(in.n + 1) : Orthonormal(frames[k])

\* C9: magnitudeToColor(t) is the 5-stop gradient blue, cyan, green, yellow, red
\* with stops at 0, 0.25, 0.5, 0.75, 1, linear between adjacent stops, clamped
\* outside [0, 1].
Stops == << <<0, 0, 1>>, <<0, 1, 1>>, <<0, 1, 0>>, <<1, 1, 0>>, <<1, 0, 0>> >>

\* the gradient at t = n / d: linear interpolation between the stops around t
RefGradient(n, d) ==
    LET cn == Max(0, Min(n, d))
        j  == IF 4 * cn >= 4 * d THEN 3 ELSE (4 * cn) \div d      \* stops j, j + 1 (0-based)
        w  == 4 * cn - j * d                                       \* weight of stop j + 1, over d
    IN  [c |-> [k \in 1..3 |-> Stops[j + 1][k] * (d - w) + Stops[j + 2][k] * w], d |-> d]

C9_MagnitudeToColorIsGradient ==
    Returned("magnitudeToColor") =>
        /\ ColorEq(color, RefGradient(in.n, in.d))
        /\ in.n <= 0 => ColorEq(color, Color(0, 0, 1, 1))
        /\ in.n >= in.d => ColorEq(color, Color(1, 0, 0, 1))
        /\ 4 * in.n = in.d => ColorEq(color, Color(0, 1, 1, 1))
        /\ 4 * in.n = 2 * in.d => ColorEq(color, Color(0, 1, 0, 1))
        /\ 4 * in.n = 3 * in.d => ColorEq(color, Color(1, 1, 0, 1))

\* an input strictly between the last two stops
C9_Witness ==
    /\ Returned("magnitudeToColor")
    /\ 4 * in.n > 3 * in.d /\ in.n < in.d
    /\ color.c[1] = color.d /\ color.c[2] > 0 /\ color.c[2] < color.d /\ color.c[3] = 0

\* C10: heightToColor returns the neutral color (0.5, 0.7, 1.0) whenever
\* maxH - minH is below 1e-6 (maxH < minH included), and the gradient color of
\* (height - minH) / (maxH - minH) otherwise; a surface of constant height
\* colored by height has the neutral color on every vertex.
C10_HeightToColor ==
    /\ Returned("heightToColor") =>
          IF in.maxH - in.minH < Eps6
          THEN color = NeutralColor
          ELSE ColorEq(color, RefGradient(in.height - in.minH, in.maxH - in.minH))
    /\ ( /\ Returned("generateParametricSurface") /\ in.colorByHeight
         /\ in.uSegments >= 1 /\ in.vSegments >= 1
         /\ Cardinality(GridHeights(in)) = 1 ) =>
          \A q \in 1..Len(verts) : verts[q].color = NeutralColor

C10_Witness ==
    /\ Returned("generateParametricSurface") /\ in.colorByHeight
    /\ in.f.c0 = 7 /\ in.uSegments = 2 /\ in.vSegments = 1
    /\ Len(verts) = 12
    /\ \A q \in 1..Len(verts) : verts[q].color = NeutralColor

\* C11: generateParametricSurface on f(u, v) = (u, v, 0) with uMin < uMax,
\* vMin < vMax and uSegments, vSegments >= 1 gives every vertex the normal
\* (0, 0, 1), and the winding of every emitted triangle, the cross product of its
\* edges (v1 - v0) x (v2 - v0) in emission order, points to the side of that normal.
Plane == Surface(FALSE, 0, 0, 0, 0)

\* dot(cross(p1 - p0, p2 - p0), n), up to a positive factor
WindingDot(p0, p1, p2, n) == Dot3(CrossH(Sub3(p1, p0), Sub3(p2, p0)), n)

C11_PlaneNormalsAndWinding ==
    ( /\ Returned("generateParametricSurface") /\ in.f = Plane
      /\ in.uMin < in.uMax /\ in.vMin < in.vMax
      /\ in.uSegments >= 1 /\ in.vSegments >= 1 ) =>
        /\ \A q \in 1..Len(verts) : verts[q].nrm = <<0, 0, 1>>
        /\ Len(verts) % 3 = 0
        /\ \A t \in 0..((Len(verts) \div 3) - 1) :
              \A q \in 1..3 :
                  WindingDot(verts[3 * t + 1].pos.p, verts[3 * t + 2].pos.p,
                             verts[3 * t + 3].pos.p, verts[3 * t + q].nrm) > 0

C11_Witness ==
    /\ Returned("generateParametricSurface") /\ in.f = Plane
    /\ in.uMin < in.uMax /\ in.uSegments = 2 /\ in.vSegments = 3
    /\ Len(verts) = 36
    /\ verts[36].nrm = <<0, 0, 1>>

\* C12: generateParametricSurface with uSegments, vSegments >= 1 returns exactly
\* uSegments * vSegments * 6 vertices; the six vertices of cell (i, j), cells in
\* the order of the loops (i outer, j inner), are the evaluator's values at the
\* grid corners (i,j), (i+1,j), (i+1,j+1) and (i,j), (i+1,j+1), (i,j+1); so a
\* surface whose values all have one magnitude yields only positions of that
\* magnitude.
CellCorners == << <<0, 0>>, <<1, 0>>, <<1, 1>>, <<0, 0>>, <<1, 1>>, <<0, 1>> >>

C12_SurfaceVertexCount ==
    ( /\ Returned("generateParametricSurface")
      /\ in.uSegments >= 1 /\ in.vSegments >= 1 ) =>
        /\ Len(verts) = in.uSegments * in.vSegments * 6
        /\ \A q \in 0..(in.uSegments * in.vSegments - 1) :
              \A k \in 1..6 :
                  LET i == (q \div in.vSegments) + CellCorners[k][1]
                      j == (q % in.vSegments) + CellCorners[k][2]
                  IN  /\ <<verts[6 * q + k].i, verts[6 * q + k].j>> = <<i, j>>
                      /\ verts[6 * q + k].pos =
                            SurfaceAt(in.f, Fin(in.uMin + i * ((in.uMax - in.uMin) \div in.uSegments)),
                                            Fin(in.vMin + j * ((in.vMax - in.vMin) \div in.vSegments)))
        /\ in.f.fixed =>
              \A q \in 1..Len(verts) :
                  Dot3(verts[q].pos.p, verts[q].pos.p)
                      = Dot3(SurfaceAt(in.f, Fin(0), Fin(0)).p, SurfaceAt(in.f, Fin(0), Fin(0)).p)

C12_Witness ==
    /\ Returned("generateParametricSurface")
    /\ in.f = Surface(FALSE, 0, 20, 10, 0) /\ in.uMin < in.uMax
    /\ in.uSegments = 3 /\ in.vSegments = 2
    /\ Len(verts) = 36
    /\ verts[1].pos.p = <<0, -1, -10>> /\ verts[36].pos.p = <<2, 1, 50>>

\* C13: the gradient-field generators reuse the vector-field emission logic: on
\* the same lattice the mesh of generateGradientField3D equals the mesh that
\* generateVectorField produces for a field equal to the gradient (same skip
\* threshold, same magnitude floor, same arrow length, proportions and color).
GradientAsField(g) == Field("grad", g.a, 2 * g.b)

C13_GradientReusesVectorEmission ==
    Returned("generateGradientField3D") =>
        verts = generateVectorField([f |-> GradientAsField(in.g), rangeMin |-> in.rangeMin,
                                     rangeMax |-> in.rangeMax, resolution |-> in.resolution]).verts

\* C14: generateScalarField emits exactly one 36-vertex cube per lattice sample
\* (resolution.x * resolution.y * resolution.z * 36 vertices), in lattice order and
\* centred on the sample position; the color of a cube is magnitudeToColor of its
\* value normalized into [0, 1] against the observed minimum and maximum; when
\* the range is below 1e-6 the divisor is 1, and when all samples are equal every
\* cube gets magnitudeToColor(0).
\* the same color: every component the same fraction
SameColor(x, y) == \A k \in 1..3 : Fraction(x.c[k], x.d) = Fraction(y.c[k], y.d)

SampleValues(a) == { ScalarAt(a.g, LatticePos(a, k)) : k \in 1..LatticeCount(a.resolution) }

C14_OneCubePerSample ==
    ( /\ Returned("generateScalarField")
      /\ \A c \in 1..3 : in.resolution[c] >= 1 ) =>
        LET n     == in.resolution[1] * in.resolution[2] * in.resolution[3]
            lo    == SetMin(SampleValues(in))
            hi    == SetMax(SampleValues(in))
            Cube(k) == [r \in 1..36 |-> verts[36 * (k - 1) + r]]
        IN  /\ Len(verts) = n * 36
            /\ \A k \in 1..n :
                  LET val == ScalarAt(in.g, LatticePos(in, k))
                      sum[r \in 0..36] ==
                          IF r = 0 THEN Zero3 ELSE Add3(sum[r - 1], Cube(k)[r].local.corner)
                  IN  /\ \A r \in 1..36 :
                            /\ Cube(k)[r].at = LatticePos(in, k)
                            /\ \A c \in 1..3 : Cube(k)[r].local.corner[c] \in {-1, 1}
                            /\ IF hi - lo < Eps6
                               THEN Cube(k)[r].color = magnitudeToColor(val - lo, UnitRange)
                               ELSE /\ SameColor(Cube(k)[r].color, RefGradient(val - lo, hi - lo))
                                    /\ 0 <= val - lo /\ val - lo <= hi - lo
                            /\ hi = lo => SameColor(Cube(k)[r].color, magnitudeToColor(0, 1))
                      /\ sum[36] = Zero3
                      /\ { Cube(k)[r].local.corner : r \in 1..36 }
                            = { <<x, y, z>> : x \in {-1, 1}, y \in {-1, 1}, z \in {-1, 1} }

\* two samples closer than 1e-6 but not equal: the divisor 1 is used
C14_Witness ==
    /\ Returned("generateScalarField")
    /\ in.resolution = <<2, 1, 1>> /\ in.rangeMax = <<4, 0, 0>> /\ in.g = Scalar(0, <<1, 0, 0>>, 0)
    /\ Len(verts) = 72
    /\ verts[37].color = magnitudeToColor(4, UnitRange)
    /\ verts[1].color = magnitudeToColor(0, UnitRange)

\* C15: generateParametricSurfaceWireframe with uSegments, vSegments >= 1 emits
\* only line pairs, 2 * (uSegments * (vSegments + 1) + vSegments * (uSegments + 1))
\* vertices: first the constant-v family, for each j = 0 .. vSegments the pairs
\* (i, j)-(i + 1, j), then the constant-u family, for each i = 0 .. uSegments the
\* pairs (i, j)-(i, j + 1); every end point is the evaluator's value at the grid
\* parameter.
GridValue(a, i, j) ==
    SurfaceAt(a.f, Fin(a.uMin + i * ((a.uMax - a.uMin) \div a.uSegments)),
                   Fin(a.vMin + j * ((a.vMax - a.vMin) \div a.vSegments)))

C15_WireframeLinePairs ==
    ( /\ Returned("generateParametricSurfaceWireframe")
      /\ in.uSegments >= 1 /\ in.vSegments >= 1 ) =>
        LET nU == in.uSegments * (in.vSegments + 1)      \* pairs along constant v
            nV == in.vSegments * (in.uSegments + 1)      \* pairs along constant u
        IN  /\ Len(verts) = 2 * (nU + nV)
            /\ \A q \in 0..(nU - 1) :
                  LET j == q \div in.uSegments
                      i == q % in.uSegments
                  IN  /\ verts[2 * q + 1].pos = GridValue(in, i, j)
                      /\ verts[2 * q + 2].pos = GridValue(in, i + 1, j)
            /\ \A q \in 0..(nV - 1) :
                  LET i == q \div in.vSegments
                      j == q % in.vSegments
                  IN  /\ verts[2 * nU + 2 * q + 1].pos = GridValue(in, i, j)
                      /\ verts[2 * nU + 2 * q + 2].pos = GridValue(in, i, j + 1)

C15_Witness ==
    /\ Returned("generateParametricSurfaceWireframe")
    /\ in.f = Surface(FALSE, 0, 20, 10, 0) /\ in.uMin < in.uMax
    /\ in.uSegments = 2 /\ in.vSegments = 1
    /\ Len(verts) = 14
    /\ verts[1].pos.p = <<0, -1, -10>> /\ verts[2].pos.p = <<1, -1, 10>>
    /\ verts[9].pos.p = <<0, -1, -10>> /\ verts[10].pos.p = <<0, 0, 0>>

\* C16: a generator is deterministic and keeps no state between calls: a call
\* with the arguments and the evaluator of an earlier call returns the mesh the
\* earlier call returned, whatever calls were made in between (the evaluator's
\* bound storage and the workers' locals hold what those calls left).
C16_SameCallSameMesh ==
    \A w \in Workers :
        (thr[w].pc = "done" /\ kept.kept /\ CallKey(thr[w]) = kept.call) =>
            thr[w].verts = kept.verts

\* the second call found the storage as another call of the function left it
C16_Witness ==
    /\ kept.kept /\ kept.call.f = "f1" /\ kept.call.segments = 1
    /\ isValid(parsers["f1"])
    /\ thr["w2"].pc = "copy0" /\ thr["w2"].f = "f1" /\ thr["w2"].segments = 1
    /\ parsers["f1"].m_vars = MaxWorkSeg - 1
    /\ thr["w1"].pc # "idle"

\* C17: generator calls for different user-defined functions may run
\* concurrently with no synchronization: under every interleaving of the steps
\* of two such calls, each returns the mesh the call returns when run alone.
AloneMesh(x) ==
    generateParametricCurve(ParserCurve(parsers[x.f]), x.tMin, x.tMax, x.segments).verts

C17_ConcurrentCallsAsAlone ==
    \A w \in Workers : thr[w].pc = "done" => thr[w].verts = AloneMesh(thr[w])

\* one call returns while the other is between evaluate's copy and its te_eval
C17_Witness ==
    /\ thr["w1"].pc = "done" /\ thr["w1"].segments = 2
    /\ thr["w2"].pc = "eval1" /\ thr["w2"].i = 0
    /\ isValid(parsers["f1"]) /\ isValid(parsers["f2"])
    /\ parsers["f1"].m_expr # parsers["f2"].m_expr
    /\ parsers[thr["w1"].f].m_vars # parsers[thr["w2"].f].m_vars
    /\ Len(thr["w1"].verts) = 4

\* C18: ExpressionParser::compile returns true on success, and false with a
\* non-empty errorMsg on failure; after a failed compile the parser is invalid
\* even if an earlier compile had succeeded; evaluate on an invalid parser
\* returns 0.0.
C18_CompileAndInvalidParser ==
    /\ lastCompile # NoCompile =>
          LET parser == parsers[lastCompile.f]
          IN  /\ lastCompile.ret = ~te_compile(lastCompile.src).expr.null
              /\ lastCompile.ret => (isValid(parser) /\ lastCompile.errorMsg = <<>>)
              /\ ~lastCompile.ret => (~isValid(parser) /\ lastCompile.errorMsg # <<>>)
    /\ \A w \in Workers :
          (thr[w].pc # "idle" /\ ~isValid(parsers[thr[w].f])) =>
              /\ thr[w].pc = "copy1" => thr[w].p0[2] = 0
              /\ \A q \in 1..Len(thr[w].verts) : thr[w].verts[q].pos[2] = 0

\* a parser that was valid fails to compile, and a curve is then evaluated on it
C18_Witness ==
    /\ lastCompile # NoCompile /\ lastCompile.f = "f1"
    /\ lastCompile.wasValid /\ ~lastCompile.ret
    /\ ~isValid(parsers["f1"])
    /\ thr["w1"].pc = "done" /\ thr["w1"].f = "f1"
    /\ Len(thr["w1"].verts) = 2 /\ thr["w1"].verts[1].pos = <<-1, 0, 0>>

\* C19: every vertex generateStreamlines emits lies inside the closed box
\* [rangeMin, rangeMax] (rangeMin <= rangeMax componentwise): a step whose new
\* position leaves the box ends the streamline without appending the position,
\* so every point of the streamline being traced is inside the box too.
InsideBox(a, p) ==
    /\ ~IsNaN3(p)
    /\ \A c \in 1..3 : a.rangeMin[c] <= p[c] /\ p[c] <= a.rangeMax[c]

C19_StreamlineInsideBox ==
    (gen = "generateStreamlines" /\ \A c \in 1..3 : in.rangeMin[c] <= in.rangeMax[c]) =>
        /\ \A q \in 1..Len(verts) : InsideBox(in, verts[q].pos)
        /\ pc \in {"integrate", "emit"} =>
               \A j \in 1..Len(streamline) : InsideBox(in, streamline[j])

\* C20: once the RK4-combined velocity at the current position has magnitude
\* below 1e-6 the streamline ends and no further point is appended; a
\* streamline that stagnates on its first step contributes no vertices, and
\* a field that is zero everywhere yields an empty mesh.
Stagnant(a, p) ==
    LET vel == RK4(a.f, p, a.stepSize)
    IN  ~IsNaN3(vel) /\ Dot3(vel, vel) < Eps6 * Eps6

C20_StagnationEndsStreamline ==
    /\ [](gen = "generateStreamlines" =>
            /\ pc \in {"integrate", "emit"} =>
                   \A j \in 1..(Len(streamline) - 1) : ~Stagnant(in, streamline[j])
            /\ in.f = Field("const", Zero3, 0) => verts = <<>>)
    /\ [][(gen = "generateStreamlines" /\ pc \in {"integrate", "emit"}
              /\ Stagnant(in, streamline[1])) =>
                 /\ verts' = verts
                 /\ pc' = "integrate" => streamline' = streamline]_vars

\* a streamline moved, reached a stagnant position and was emitted as it stood;
\* an earlier one had stagnated on its first step and left no vertex
C20_Witness ==
    /\ gen = "generateStreamlines" /\ pc = "lattice" /\ lat = 2
    /\ in.f = StepField /\ in.stepSize = 1
    /\ Len(streamline) > 1 /\ Stagnant(in, streamline[Len(streamline)])
    /\ Len(verts) = 2 * (Len(streamline) - 1)

\* C21: in generateVectorField the normalizing maximum is at least 0.001 and at
\* least every sample magnitude, so every emitted arrow's normalized magnitude
\* lies in (0, 1]; its length is arrowScale * (0.05 + 0.75 * normalizedMag),
\* between 0.05 and 0.8 arrowScale, and since one maximum normalizes all arrows
\* the length does not decrease when the sample magnitude increases.
MagSqAt(a, at) == LET dir == FieldAt(a.f, at) IN Dot3(dir, dir)

\* the maximum (squared) that normalized the glyph of vertex x:
\* nm2 = magSq / maxMagSq in lowest terms
NormalizerSq(a, x) == (MagSqAt(a, x.at) \div x.tag.nm2[1]) * x.tag.nm2[2]

C21_NormalizedMagnitude ==
    Returned("generateVectorField") =>
        \A q \in 1..Len(verts) :
            /\ verts[q].tag.nm2[1] > 0
            /\ verts[q].tag.nm2[1] <= verts[q].tag.nm2[2]
            /\ verts[q].tag.len = <<5, 75>>
            /\ NormalizerSq(in, verts[q]) >= MaxMagFloor * MaxMagFloor
            /\ \A k \in 1..LatticeCount(in.resolution) :
                  NormalizerSq(in, verts[q]) >= MagSqAt(in, LatticePos(in, k))
            /\ NormalizerSq(in, verts[q]) = NormalizerSq(in, verts[1])

\* two arrows, the longer one at the maximum (above the floor), the other at a
\* third of it
C21_Witness ==
    /\ Returned("generateVectorField")
    /\ in.f = StrongField /\ in.rangeMin = Zero3 /\ in.resolution = <<2, 1, 1>>
    /\ Len(verts) = 180
    /\ verts[1].tag.nm2 = <<1, 9>> /\ verts[91].tag.nm2 = <<1, 1>>

\* C22: in generateSurfaceNormals and generateSurfaceTangents any two distinct
\* grid samples at which a glyph was placed have positions at least 0.1 apart: a
\* sample gets its glyphs exactly when its direction is not degenerate and no
\* earlier sample that received a glyph is closer than 0.1 (samples that
\* emitted nothing do not count as placed).
OverlaySamples(a) ==
    IF OverlayCount(a) = 0 THEN {} ELSE (0..(a.uCount - 1)) \X (0..(a.vCount - 1))

OverlayPos(a, x) ==
    PoleSurfaceAt(a.s, OverlayParam(a.uMin, a.uMax, a.uCount, x[1]),
                       OverlayParam(a.vMin, a.vMax, a.vCount, x[2]))

\* the samples for which the mesh holds a glyph
Placed == { <<verts[q].tag.i, verts[q].tag.j>> : q \in 1..Len(verts) }

Apart(a, x, y) ==
    LET d == Sub3(OverlayPos(a, x), OverlayPos(a, y)) IN Dot3(d, d) >= 10 * 10

Earlier(x, y) == x[1] < y[1] \/ (x[1] = y[1] /\ x[2] < y[2])

\* the direction(s) the generator draws at sample x are not all degenerate
HasDirection(a, x) ==
    LET u == OverlayParam(a.uMin, a.uMax, a.uCount, x[1])
    IN  IF gen = "generateSurfaceNormals" THEN u # 0
        ELSE CASE a.mode = 0 -> TRUE
               [] a.mode = 1 -> TRUE
               [] a.mode = 2 -> u # 0

C22_PlacedGlyphsApart ==
    (Returned("generateSurfaceNormals") \/ Returned("generateSurfaceTangents")) =>
        /\ \A q \in 1..Len(verts) : verts[q].at = OverlayPos(in, <<verts[q].tag.i, verts[q].tag.j>>)
        /\ \A x \in Placed, y \in Placed : x # y => Apart(in, x, y)
        /\ \A x \in OverlaySamples(in) :
              x \in Placed <=>
                  (HasDirection(in, x) /\ \A e \in Placed : Earlier(e, x) => Apart(in, e, x))

\* the pole sample emitted nothing (its normal is zero) and was not recorded: the
\* sample 0.06 from it got a glyph; the next one, 0.06 further, did not; the
\* third, 0.12 from the first, did
C22_Witness ==
    /\ Returned("generateSurfaceNormals")
    /\ in.s = 6 /\ in.uCount = 2 /\ in.vCount = 3
    /\ Placed = { <<1, 0>>, <<1, 2>> }
    /\ Len(verts) = 180

\* C23: generateFrenetFrame returns an empty mesh when the first-derivative
\* magnitude is below 1e-6, and otherwise exactly three arrows, 270 vertices, in
\* the order T (red), N (green), B (blue) with B = cross(T, N); on a straight
\* segment (curvature component below 1e-6) N is a unit vector perpendicular to
\* T and to the fallback reference axis, not a NaN vector.
FrenetT(a) == a.tMin + a.tNorm * (a.tMax - a.tMin)

\* r'(t) and r''(t) of the curve, for a range that is not empty
FirstDerivative(a) == Add3(a.c.a1, Scale3(2 * FrenetT(a), a.c.a2))
SecondDerivative(a) == Scale3(2, a.c.a2)

C23_FrenetFrame ==
    Returned("generateFrenetFrame") =>
        LET finite == in.tMax # in.tMin
            r1 == FirstDerivative(in)
            T == verts[1].dir
            N == verts[91].dir
            B == verts[181].dir
        IN  /\ (finite /\ r1 = Zero3) => verts = <<>>
            /\ ~(finite /\ r1 = Zero3) =>
                  /\ Len(verts) = 270
                  /\ \A q \in 1..270 :
                        /\ verts[q].tag.k = (q - 1) \div 90
                        /\ verts[q].tag.color = [c \in 1..3 |-> IF c = verts[q].tag.k + 1 THEN 1 ELSE 0]
                        /\ verts[q].dir = << T, N, B >>[verts[q].tag.k + 1]
                  /\ B.nan = (T.nan \/ N.nan)
                  /\ ~B.nan => (/\ B.n = Cross3(T.n, N.n)
                                /\ Perp(B, T) /\ Perp(B, N))
                  /\ finite => (~T.nan /\ IsUnit(T) /\ Cross3(T.n, r1) = Zero3 /\ Dot3(T.n, r1) > 0)
            /\ (finite /\ r1 # Zero3 /\ Cross3(r1, SecondDerivative(in)) = Zero3) =>
                  /\ ~N.nan /\ IsUnit(N) /\ Perp(N, T)
                  /\ Perp(N, IF 100 * Abs(r1[2]) * Abs(r1[2]) < 81 * Dot3(r1, r1)
                              THEN YAxis ELSE XAxis)

\* the line along y, the first reference axis: N comes from the second one
C23_Witness ==
    /\ Returned("generateFrenetFrame")
    /\ in.c = Curve(<<0, 1, 0>>, <<0, 0, 0>>) /\ in.tMax > in.tMin
    /\ Len(verts) = 270
    /\ verts[1].dir.n = <<0, 1, 0>> /\ ~verts[91].dir.nan /\ Perp(verts[91].dir, XAxis)

\* C24: every glyph placement site applies the same orientation rule: for a unit
\* direction d the reference axis is (0,1,0) when |d.y| < 0.99 and (1,0,0)
\* otherwise, so cross(ref, d) is never the zero vector; (xAxis, yAxis, d) is
\* orthonormal (and right-handed), so the arrow's local origin goes to the
\* placement position and its local +Z axis onto d.
GlyphGenerators ==
    { "generateVectorField", "generateGradientField3D", "generateTangentVectors",
      "generateCurveNormals", "generateFrenetFrame", "generateSurfaceNormals",
      "generateSurfaceTangents" }

\* the reference axis the rule names for d = n / sqrt(dd)
RuleRef(d) == IF 10000 * d.n[2] * d.n[2] < 9801 * d.d THEN <<0, 1, 0>> ELSE <<1, 0, 0>>

C24_GlyphOrientation ==
    (pc = "returned" /\ gen \in GlyphGenerators) =>
        \A q \in 1..Len(verts) :
            IsUnit(verts[q].dir) =>
                LET d == verts[q].dir
                    x == verts[q].xAxis
                    y == verts[q].yAxis
                    c == Cross3(RuleRef(d), d.n)
                IN  /\ c # Zero3
                    /\ IsUnit(x) /\ Cross3(x.n, c) = Zero3 /\ Dot3(x.n, c) > 0
                    /\ IsUnit(y) /\ Perp(x, y) /\ Perp(x, d) /\ Perp(y, d)
                    /\ Cross3(Cross3(x.n, y.n), d.n) = Zero3
                    /\ Dot3(Cross3(x.n, y.n), d.n) > 0

\* an arrow whose direction is steeper than the threshold without being the
\* y axis: the reference is (1,0,0)
C24_Witness ==
    /\ Returned("generateVectorField") /\ Len(verts) = 90
    /\ verts[1].dir.n = <<1, 10, 0>>
    /\ verts[1].xAxis.n = <<0, 0, 1>> /\ verts[1].yAxis.n = <<10, -1, 0>>


---------------------------------------------------------------------------
(* Claims on the frame loop (SpecFrame) *)

Pending == app.m_pendingBufferReleases
InPending(b) == \E k \in DOMAIN Pending : Pending[k].buffer = b
Deferred == {b \in DOMAIN gpu : gpu[b].deferred}
ByRelease(b) == gpu[b].destroys = 1 /\ gpu[b].by = "processPendingReleases"
PendingWellFormed ==
    /\ \A k \in DOMAIN Pending : Pending[k].buffer # nullptr
    /\ \A k, l \in DOMAIN Pending : Pending[k].buffer = Pending[l].buffer => k = l

\* C25 as stated: a buffer passed to deferBufferRelease is destroyed exactly
\* once, on the 5th call of processPendingReleases after the deferral and never
\* earlier; no null buffer is enqueued and no buffer is twice in the pending list
C25_DestroyedOnFifthCall ==
    /\ \A b \in Deferred :
          /\ gpu[b].destroys <= 1
          /\ gpu[b].destroys = 1 => ByRelease(b) /\ gpu[b].age = BUFFER_RELEASE_DELAY
          /\ gpu[b].destroys = 0 => InPending(b) /\ gpu[b].age < BUFFER_RELEASE_DELAY
    /\ PendingWellFormed

\* C25 amended: a buffer passed to deferBufferRelease is destroyed exactly once:
\* by processPendingReleases on its 5th call after the deferral and never
\* earlier, or, when onFinish comes before that call, by the flush of
\* terminateGraphObjects; until then it is in the pending list, with as many
\* calls left as make five; no null buffer is enqueued and no buffer is twice
\* in the pending list
C25_DestroyedOnFifthCallOrAtFinish ==
    /\ \A b \in Deferred :
          /\ gpu[b].destroys <= 1
          /\ gpu[b].destroys = 1 =>
                \/ ByRelease(b) /\ gpu[b].age = BUFFER_RELEASE_DELAY
                \/ /\ gpu[b].by = "terminateGraphObjects"
                   /\ fpc = "finished"
                   /\ gpu[b].age < BUFFER_RELEASE_DELAY
          /\ gpu[b].destroys = 0 =>
                /\ gpu[b].age < BUFFER_RELEASE_DELAY
                /\ \E k \in DOMAIN Pending :
                      /\ Pending[k].buffer = b
                      /\ Pending[k].frames = BUFFER_RELEASE_DELAY - gpu[b].age
    /\ PendingWellFormed
    /\ \A k \in DOMAIN Pending : Pending[k].buffer \in Deferred

C25_Witness ==
    /\ fpc = "released"
    /\ \E b \in Deferred : ByRelease(b) /\ gpu[b].age = BUFFER_RELEASE_DELAY
    /\ Pending # <<>>

Live(b) == b \in DOMAIN gpu /\ gpu[b].destroys = 0 /\ ~InPending(b)

\* C26: the vertex buffers a frame binds for drawing are live, and at every
\* point of the run a current surface, curve or axes pointer that is not null
\* is a buffer created for that pointer, never deferred, not in the
\* pending-release list and not destroyed
C26_CurrentBuffersLive ==
    /\ fpc = "drawn" => \A e \in obs.bound : Live(e.buffer)
    /\ \A slot \in Slots :
          LET b == app[BufferOf(slot)]
          IN  b # nullptr =>
                 /\ Live(b)
                 /\ ~gpu[b].deferred
                 /\ gpu[b].maker = slot

C26_Witness ==
    /\ fpc = "drawn"
    /\ {e.slot : e \in obs.bound} = Slots
    /\ Pending # <<>>
    /\ \E b \in Deferred : ByRelease(b) /\ gpu[b].maker = "surface"
    /\ \E b \in Deferred : ByRelease(b) /\ gpu[b].maker = "axes"

\* C27: after onFinish every vertex buffer created by updateGraphObjects or
\* rebuildAxesBuffer has been destroyed exactly once: the pending-release list
\* is empty, no current surface, curve or axes buffer is left undestroyed, and
\* none is destroyed twice
C27_AllDestroyedOnceAfterFinish ==
    fpc = "finished" =>
        /\ Pending = <<>>
        /\ \A b \in DOMAIN gpu : gpu[b].destroys = 1
        /\ \A slot \in Slots :
              app[BufferOf(slot)] # nullptr => gpu[app[BufferOf(slot)]].destroys = 1

UpdateCall == fpc = "released" /\ fpc' = "updated"
SlotBuffers(g) == {b \in DOMAIN g : g[b].maker \in {"surface", "curve"}}

\* C28: a set m_graphObjectsDirty is served within two calls of
\* updateGraphObjects: a call that finds the flag set either is the one call
\* that returns on the throttle, with the flag still set, or rebuilds from the
\* function list as it is then and clears the flag, and no second call in a row
\* waits; a call that finds the flag clear creates and defers nothing; and the
\* default function of onInit has been built when the first onFrame ends
C28_RebuildWithinTwoCalls ==
    /\ [](/\ obs.waited <= 1
          /\ (fpc = "updated" /\ obs.rebuilt) =>
                 /\ ~app.m_graphObjectsDirty
                 /\ obs.evaluated = Evaluated(app.m_functions)
          /\ obs.frames = 1 =>
                 /\ obs.built
                 /\ \E e \in obs.evaluated :
                       e.fi = 1 /\ e.fd.exprStrings = <<"2*t", "2*t", "2*t">>
                 /\ \E b \in DOMAIN gpu : gpu[b].maker = "surface")
    /\ [][UpdateCall =>
             /\ (~app.m_graphObjectsDirty =>
                    /\ ~obs'.rebuilt
                    /\ SlotBuffers(gpu') = SlotBuffers(gpu)
                    /\ \A b \in SlotBuffers(gpu) : gpu'[b].deferred = gpu[b].deferred)
             /\ (app.m_graphObjectsDirty /\ obs.waited = 0 =>
                    \/ obs'.rebuilt
                    \/ app'.m_graphObjectsDirty /\ obs'.waited = 1)
             /\ (app.m_graphObjectsDirty /\ obs.waited = 1 => obs'.rebuilt)]_vars

\* two edits, the second made during the throttle wait of the first, served by
\* one rebuild: an added function, then shown as wireframe
C28_Witness ==
    /\ fpc = "updated"
    /\ obs.rebuilt
    /\ obs.edits = 2
    /\ Len(app.m_functions) = 2
    /\ app.m_curveVertexBuffer # nullptr
    /\ Len(gpu) = 4

Components(fd) == 1..fd.outputDim
CompilesAt(fd, i) == ~te_compile(fd.exprStrings[i]).expr.null
Failing(fd) == {i \in Components(fd) : ~CompilesAt(fd, i)}
FirstFailing(fd) == CHOOSE i \in Failing(fd) : \A j \in Failing(fd) : i <= j

\* what compileFunctionDef must have left in fd
Compiled(fd) ==
    IF Failing(fd) = {}
    THEN /\ fd.isValid
         /\ fd.errorMsg = <<>>
         /\ \A i \in Components(fd) :
               fd.parsers[i].m_expr = te_compile(fd.exprStrings[i]).expr
    ELSE /\ ~fd.isValid
         /\ Len(fd.errorMsg) = 4 /\ fd.errorMsg[1] = "f" /\ fd.errorMsg[2] = FirstFailing(fd)
         /\ ~isValid(fd.parsers[FirstFailing(fd)])
         /\ \A i \in 1..(FirstFailing(fd) - 1) :
               fd.parsers[i].m_expr = te_compile(fd.exprStrings[i]).expr

\* C29: every function of the list is as compileFunctionDef leaves it for its
\* present expressions (isValid exactly when all outputDim expressions compile,
\* else the message names the first failing component), also after every edit
\* that marks the scene dirty; the rebuild calls the evaluators only of
\* functions that were shown and valid, all of whose parsers hold a compiled
\* expression; and a compile that fails at a component leaves the parsers of
\* the later components as they were
C29_EvaluatorsOnlyOfValidFunctions ==
    /\ [](/\ \A fi \in DOMAIN app.m_functions : Compiled(app.m_functions[fi])
          /\ \A e \in obs.evaluated :
                /\ e.fd.show
                /\ e.fd.isValid
                /\ \A i \in Components(e.fd) : isValid(e.fd.parsers[i]))
    /\ [][(fpc = "drawn" /\ Len(app'.m_functions) = Len(app.m_functions)) =>
             \A fi \in DOMAIN app.m_functions :
                LET fd == app'.m_functions[fi]
                IN  Failing(fd) # {} =>
                       \A i \in (FirstFailing(fd) + 1)..3 :
                          fd.parsers[i] = app.m_functions[fi].parsers[i]]_vars

\* a rebuild that skipped a shown function whose second expression fails, with
\* its first and third parsers holding compiled expressions, and evaluated
\* another
C29_Witness ==
    /\ fpc = "updated"
    /\ obs.rebuilt
    /\ obs.evaluated # {}
    /\ \E fi \in DOMAIN app.m_functions :
          LET fd == app.m_functions[fi]
          IN  /\ fd.show /\ ~fd.isValid
              /\ fd.outputDim = 3
              /\ FirstFailing(fd) = 2
              /\ isValid(fd.parsers[1]) /\ isValid(fd.parsers[3])
              /\ fi \notin {e.fi : e \in obs.evaluated}

ArrowParts(part) == {k \in DOMAIN verts : verts[k].part = part}
ArrowTriangle(t) == {3 * t - 2, 3 * t - 1, 3 * t}

\* C30: generateArrowMesh with segments = k >= 1 returns exactly 15 k vertices,
\* 6 k of the shaft, 3 k of the cone, 3 k of the shaft's bottom cap and 3 k of
\* the head's base cap, each three in a row from one part and one step of its
\* loop; every position has z between 0 and shaftLength + headLength; and the
\* vertices of both caps carry the normal (0, 0, -1)
C30_ArrowMesh ==
    (Returned("generateArrowMesh") /\ in.segments >= 1) =>
        LET k == in.segments
        IN  /\ Len(verts) = 15 * k
            /\ Cardinality(ArrowParts("shaft")) = 6 * k
            /\ Cardinality(ArrowParts("cone")) = 3 * k
            /\ Cardinality(ArrowParts("shaftCap")) = 3 * k
            /\ Cardinality(ArrowParts("coneCap")) = 3 * k
            /\ \A t \in 1..(5 * k) : \A a, b \in ArrowTriangle(t) :
                  verts[a].part = verts[b].part /\ verts[a].i = verts[b].i
            /\ \A j \in DOMAIN verts :
                  LET z == ArrowHeight(verts[j].z, in.shaftLength, in.headLength)
                  IN  0 <= z /\ z <= in.shaftLength + in.headLength
            /\ \A j \in DOMAIN verts :
                  verts[j].part \in {"shaftCap", "coneCap"} =>
                     ArrowNormal(verts[j].nrm) = <<0, 0, -1>>

C30_Witness ==
    /\ Returned("generateArrowMesh")
    /\ in.segments = ArrowSegments
    /\ in.shaftLength = 3 /\ in.headLength = 1
    /\ Len(verts) = 90
    /\ \E j \in DOMAIN verts :
          ArrowHeight(verts[j].z, in.shaftLength, in.headLength) = 4

==========================================================================
